---- MODULE Spec2Model ----
(***************************************************************************)
(* Model of the OSM mining pipeline of perera-svg/recomendation-system:    *)
(* the MongoDB storage handler (mongoStorage.ts), the sync sessions        *)
(* (main / fetchTourismOnly), the multi-category run (fetchOsmData) and    *)
(* the category resolution of the normalizer (osmFetcher.ts).              *)
(***************************************************************************)
EXTENDS Integers, Sequences, FiniteSets, TLC

(***************************************************************************)
(* Bounds of the model.                                                    *)
(***************************************************************************)
MaxBatch == 2
MaxTime == 1
MaxPage == 1

(***************************************************************************)
(* Values.                                                                 *)
(***************************************************************************)
NULL == "null"

Ids == {"node/1", "node/2"}
Names == {"Galle Fort", "Unnamed"}
Categories == {"tourism"}

\* The { $limit: 20 } stage of getStats' second aggregate.
TopLimit == 20

\* ProcessedPlace records as processForMongoDB builds them (no created_at),
\* reduced to the identity and two data fields.
PlainFeatures ==
  [osm_id : Ids, name : Names, category : Categories]

\* A ProcessedPlace may carry the optional created_at (a document read back
\* from the store and sent again).
RestoredFeatures ==
  { [osm_id |-> "node/2", name |-> "Unnamed", category |-> "tourism",
     created_at |-> 0] }

Features == PlainFeatures \cup RestoredFeatures

RECURSIVE SeqsUpTo(_, _)
SeqsUpTo(S, n) ==
  IF n = 0 THEN { <<>> }
  ELSE LET shorter == SeqsUpTo(S, n - 1)
       IN shorter \cup { Append(s, x) : s \in { t \in shorter : Len(t) = n - 1 }, x \in S }

Batches == SeqsUpTo(Features, MaxBatch)

StoreOps ==
  { "storeFeatures", "findNear", "findByCategory", "search", "getStats",
    "clearCollection", "exportAsGeoJSON" }

\* The indexes createIndexes asks for, in the order of its awaits.
IndexOrder ==
  << "location_2dsphere", "text", "category", "subcategory", "osm_id_unique" >>

VARIABLES
  client,            \* this.client: null, new (constructed), connected, closed
  collection,        \* this.collection: null or the collection handle
  indexes,           \* indexes that exist on the collection in the database
  places,            \* the documents of the collection, in insertion order
  now,               \* the wall clock read by new Date()
  call,              \* the store method that is suspended at an await
  features,          \* storeFeatures: its argument
  idx,               \* storeFeatures: position of the for loop (1-based)
  results,           \* storeFeatures: the StorageResult being accumulated
  ret,               \* outcome of the last store call, until the caller resumes
  connectSucceeded,  \* history: a connect() call has completed normally
  hist               \* history of the call in progress (see NoHist)

storeVars ==
  << client, collection, indexes, places, now, call, features, idx, results,
     ret, connectSucceeded, hist >>

\* A sync session: main() or fetchTourismOnly().
VARIABLES
  prog,              \* the entry point that runs: main or fetchTourismOnly
  mpc,               \* its position
  processedFeatures, \* its local: the result of processForMongoDB
  thrown,            \* an exception is pending while the finally block runs
  exitCode,          \* the code given to process.exit, -1 while none was
  disconnectCalled   \* history: storage.disconnect() was called

sessVars == << prog, mpc, processedFeatures, thrown, exitCode, disconnectCalled >>

\* The multi-category run: fetchOsmData().
VARIABLES
  fpc,               \* its position
  fcat,              \* the index of the for loop in the category list
  attempted,         \* history: the fetches started, in order
  failed             \* history: the attempts that threw

fetchVars == << fpc, fcat, attempted, failed >>

\* Category resolution of the normalizer.
VARIABLES
  tags,              \* the tag map of the feature
  category,          \* result of determineCategory
  subcategory        \* result of determineSubcategory

catVars == << tags, category, subcategory >>

\* The normalizer: one call of processForMongoDB.
VARIABLES
  geojson,           \* its argument: the features of the collection
  normalized         \* its outcome: the records returned or the error thrown

normVars == << geojson, normalized >>

\* The query builder: OverpassQueryBuilder objects and the calls made on them.
VARIABLES
  builders,          \* the objects constructed: each one holds this.bbox
  remembered,        \* history: one earlier build call the caller kept, with what it returned
  built              \* the last build call, with what it returned

qbVars == << builders, remembered, built >>

\* One call of executeQuery.
VARIABLES
  epc,               \* its position
  equery,            \* its argument
  requests,          \* history: the requests sent to the endpoint, in order
  response,          \* the response of the endpoint to the request in flight
  eret               \* its outcome: the data returned or the error thrown

exVars == << epc, equery, requests, response, eret >>

fetcherVars == << normVars, qbVars, exVars >>

\* Periodic mode: startPeriodicFetching() and the sync cycles it starts.
VARIABLES
  cycles,            \* the main() calls started, in order: position and MongoDBStorage of each
  installed,         \* setInterval was called
  exited             \* the code given to process.exit, -1 while the process runs

perVars == << cycles, installed, exited >>

\* The JavaScript variant of MongoDBStorage, next to the TypeScript one.
VARIABLES
  js                 \* its collection handle, its collection and its storeFeatures call

jsVars == << js >>

runVars == << perVars, jsVars >>

vars == << storeVars, sessVars, fetchVars, catVars, fetcherVars, runVars >>

NoResults == [inserted |-> 0, updated |-> 0, errors |-> 0]
NoRet == [op |-> "none", status |-> "none", error |-> "none", value |-> << >>]
\* before: the collection when the storeFeatures call started; again: the call
\* repeats the batch of the call that returned just before it; firstErrors:
\* the errors counter that first call returned; args: the arguments of the
\* findByCategory call.
NoArgs == [category |-> "none", limit |-> 0, skip |-> 0]
NoHist == [before |-> << >>, again |-> FALSE, firstErrors |-> 0, args |-> NoArgs]

Returned(op, value) ==
  [op |-> op, status |-> "returned", error |-> "none", value |-> value]
Raised(op, error) ==
  [op |-> op, status |-> "raised", error |-> error, value |-> << >>]


(***************************************************************************)
(* MongoDBStorage (mongoStorage.ts).                                       *)
(***************************************************************************)

\* if (!this.collection) throw new Error("Not connected to MongoDB")
NotConnected == collection = NULL

\* A store method may start when no other is suspended and the caller has
\* taken the outcome of the previous one.
Idle == call = "none" /\ ret.status = "none"

\* Mutant of Conflicts: a created_at carried by the feature is accepted.
Conflicts_Never(feature) == FALSE

\* updateOne: $set: feature and $setOnInsert: {created_at} name the same
\* path when the feature carries created_at; the server rejects the update.
Conflicts(feature) == "created_at" \in DOMAIN feature

Matching(coll, id) == { k \in 1..Len(coll) : coll[k].osm_id = id }

\* Mutant of SetFields: a field the document already has is not overwritten.
SetFields_KeepOld(doc, fields) ==
  [ k \in DOMAIN doc \cup DOMAIN fields |->
      IF k \in DOMAIN doc THEN doc[k] ELSE fields[k] ]

\* $set: every field of `fields` overwrites, the others are kept.
SetFields(doc, fields) ==
  [ k \in DOMAIN doc \cup DOMAIN fields |->
      IF k \in DOMAIN fields THEN fields[k] ELSE doc[k] ]

\* $setOnInsert: { created_at: new Date() }
SetOnInsert(date) == [created_at |-> date]

\* Mutant of UpdateOne: the filter is ignored and every upsert inserts.
UpdateOne_InsertAlways(coll, feature, date) ==
  [ coll |-> Append(coll, SetFields(SetFields([osm_id |-> feature.osm_id],
                                               SetOnInsert(date)),
                                     feature)),
    matchedCount |-> 0, modifiedCount |-> 0, upsertedCount |-> 1 ]

\* Mutant of UpdateOne: created_at is written with $set, on update as well.
UpdateOne_SetsCreatedAt(coll, feature, date) ==
  LET hits == Matching(coll, feature.osm_id)
  IN IF hits = {}
     THEN [ coll |-> Append(coll, SetFields(SetFields([osm_id |-> feature.osm_id],
                                                       SetOnInsert(date)),
                                             feature)),
            matchedCount |-> 0, modifiedCount |-> 0, upsertedCount |-> 1 ]
     ELSE LET k == CHOOSE m \in hits : \A n \in hits : m <= n
              doc == SetFields(SetFields(coll[k], feature), SetOnInsert(date))
          IN [ coll |-> [coll EXCEPT ![k] = doc],
               matchedCount |-> 1,
               modifiedCount |-> IF doc = coll[k] THEN 0 ELSE 1,
               upsertedCount |-> 0 ]

\* collection.updateOne({osm_id}, {$set, $setOnInsert}, {upsert: true})
UpdateOne(coll, feature, date) ==
  LET hits == Matching(coll, feature.osm_id)
  IN IF hits = {}
     THEN [ coll |-> Append(coll, SetFields(SetFields([osm_id |-> feature.osm_id],
                                                       SetOnInsert(date)),
                                             feature)),
            matchedCount |-> 0, modifiedCount |-> 0, upsertedCount |-> 1 ]
     ELSE LET k == CHOOSE m \in hits : \A n \in hits : m <= n
              doc == SetFields(coll[k], feature)
          IN [ coll |-> [coll EXCEPT ![k] = doc],
               matchedCount |-> 1,
               modifiedCount |-> IF doc = coll[k] THEN 0 ELSE 1,
               upsertedCount |-> 0 ]

\* Mutant of Count: every matched document counts as updated.
Count_Matched(res, r) ==
  IF r.upsertedCount > 0 THEN [res EXCEPT !.inserted = @ + 1]
  ELSE IF r.matchedCount > 0 THEN [res EXCEPT !.updated = @ + 1]
  ELSE res

\* if (result.upsertedCount > 0) inserted++ else if (result.modifiedCount > 0) updated++
Count(res, r) ==
  IF r.upsertedCount > 0 THEN [res EXCEPT !.inserted = @ + 1]
  ELSE IF r.modifiedCount > 0 THEN [res EXCEPT !.updated = @ + 1]
  ELSE res

\* catch (error) { ...; results.errors++ }
CatchStoreError(res) == [res EXCEPT !.errors = @ + 1]

\* Mutant of AfterCatch: the first failure ends the loop.
AfterCatch_Break(i, n) == n + 1

\* The for loop goes on with the next feature after the catch block.
AfterCatch(i, n) == i + 1

Tick ==
  /\ now < MaxTime
  /\ now' = now + 1
  /\ UNCHANGED << client, collection, indexes, places, call, features, idx,
                  results, ret, connectSucceeded, hist >>

\* Mutant of Connect: the collection handle is assigned before the await of
\* client.connect(), so a failed connect leaves it set.
Connect_EarlyHandle ==
  /\ Idle
  /\ \/ /\ client' = "connected"
        /\ collection' = "places"
        /\ call' = "createIndexes"
        /\ ret' = ret
     \/ /\ client' = "new"
        /\ collection' = "places"
        /\ call' = call
        /\ ret' = Raised("connect", "DriverError")
  /\ UNCHANGED << indexes, places, now, features, idx, results,
                  connectSucceeded, hist >>

\* connect(), up to the await of createIndexes.
Connect ==
  /\ Idle
  /\ \/ /\ client' = "connected"
        /\ collection' = "places"
        /\ call' = "createIndexes"
        /\ ret' = ret
     \/ /\ client' = "new"
        /\ collection' = collection
        /\ call' = call
        /\ ret' = Raised("connect", "DriverError")
  /\ UNCHANGED << indexes, places, now, features, idx, results,
                  connectSucceeded, hist >>

\* Mutant of CreateIndexes: every createIndex has a try block of its own, so
\* the ones after a failure are still attempted.
CreateIndexes_EachOnItsOwn ==
  /\ call = "createIndexes"
  /\ \E created \in SUBSET { IndexOrder[j] : j \in 1..Len(IndexOrder) } :
       indexes' = indexes \cup created
  /\ call' = "none"
  /\ ret' = Returned("connect", << >>)
  /\ connectSucceeded' = TRUE
  /\ UNCHANGED << client, collection, places, now, features, idx, results, hist >>

\* Mutant of CreateIndexes: the catch block rethrows, so a failed createIndex
\* makes connect() fail.
CreateIndexes_Rethrow ==
  /\ call = "createIndexes"
  /\ \E k \in 0..Len(IndexOrder) :
       /\ indexes' = indexes \cup { IndexOrder[j] : j \in 1..k }
       /\ IF k = Len(IndexOrder)
          THEN ret' = Returned("connect", << >>) /\ connectSucceeded' = TRUE
          ELSE ret' = Raised("connect", "DriverError")
               /\ connectSucceeded' = connectSucceeded
  /\ call' = "none"
  /\ UNCHANGED << client, collection, places, now, features, idx, results, hist >>

\* createIndexes(), awaited by connect(): the first failing createIndex ends
\* the try block, the catch logs, and connect() completes.
CreateIndexes ==
  /\ call = "createIndexes"
  /\ \E k \in 0..Len(IndexOrder) :
       indexes' = indexes \cup { IndexOrder[j] : j \in 1..k }
  /\ call' = "none"
  /\ ret' = Returned("connect", << >>)
  /\ connectSucceeded' = TRUE
  /\ UNCHANGED << client, collection, places, now, features, idx, results, hist >>

Disconnect ==
  /\ Idle
  /\ client' = IF client # NULL THEN "closed" ELSE client
  /\ ret' = Returned("disconnect", << >>)
  /\ UNCHANGED << collection, indexes, places, now, call, features, idx,
                  results, connectSucceeded, hist >>

\* storeFeatures(features), up to the first await.
StoreFeaturesBegin(batch, again) ==
  IF NotConnected
  THEN /\ ret' = Raised("storeFeatures", "NotConnected")
       /\ UNCHANGED << call, features, idx, results, hist >>
  ELSE /\ call' = "storeFeatures"
       /\ features' = batch
       /\ idx' = 1
       /\ results' = NoResults
       /\ hist' = [before |-> places, again |-> again,
                   firstErrors |-> IF again THEN results.errors ELSE 0,
                   args |-> NoArgs]
       /\ ret' = NoRet

StoreFeatures ==
  /\ Idle
  /\ \E batch \in Batches : StoreFeaturesBegin(batch, FALSE)
  /\ UNCHANGED << client, collection, indexes, places, now, connectSucceeded >>

\* The caller sends the batch of the call that just returned once more.
StoreFeaturesAgain ==
  /\ call = "none"
  /\ ret.op = "storeFeatures" /\ ret.status = "returned"
  /\ StoreFeaturesBegin(features, TRUE)
  /\ UNCHANGED << client, collection, indexes, places, now, connectSucceeded >>

\* One turn of the for loop: the upsert of features[idx].
StoreFeaturesStep ==
  /\ call = "storeFeatures"
  /\ idx <= Len(features)
  /\ \E fails \in BOOLEAN :
       IF fails \/ Conflicts(features[idx])
       THEN /\ places' = places
            /\ results' = CatchStoreError(results)
            /\ idx' = AfterCatch(idx, Len(features))
       ELSE LET r == UpdateOne(places, features[idx], now)
            IN /\ places' = r.coll
               /\ results' = Count(results, r)
               /\ idx' = idx + 1
  /\ UNCHANGED << client, collection, indexes, now, call, features, ret,
                  connectSucceeded, hist >>

StoreFeaturesReturn ==
  /\ call = "storeFeatures"
  /\ idx > Len(features)
  /\ call' = "none"
  /\ ret' = Returned("storeFeatures", results)
  /\ UNCHANGED << client, collection, indexes, places, now, features, idx,
                  results, connectSucceeded, hist >>

\* The caller takes the outcome of the call and goes on.
Resume ==
  /\ call = "none"
  /\ ret.status # "none"
  /\ ret' = NoRet
  /\ features' = << >>
  /\ idx' = 1
  /\ results' = NoResults
  /\ hist' = NoHist
  /\ UNCHANGED << client, collection, indexes, places, now, call, connectSucceeded >>


(***************************************************************************)
(* The queries. Each one raises before any database operation when the     *)
(* collection handle is null; the database operation itself may fail.      *)
(***************************************************************************)

RECURSIVE SelectSeq2(_, _)
\* find(query).toArray(): the matching documents, in collection order.
SelectSeq2(coll, cat) ==
  IF coll = << >> THEN << >>
  ELSE IF Head(coll).category = cat
       THEN << Head(coll) >> \o SelectSeq2(Tail(coll), cat)
       ELSE SelectSeq2(Tail(coll), cat)

\* Mutant of Paginate: the options apply in the order of the calls, the limit
\* first and the skip to what the limit left.
Paginate_LimitFirst(docs, limit, skip) ==
  LET first == IF limit > 0 /\ limit < Len(docs) THEN SubSeq(docs, 1, limit) ELSE docs
  IN SubSeq(first, skip + 1, Len(first))

\* cursor.limit(n) and cursor.skip(n) set options of the cursor, whatever the
\* order of the two calls; the server skips first and limits then. A limit or
\* skip of 0 is falsy and is not set.
Paginate(docs, limit, skip) ==
  LET rest == SubSeq(docs, skip + 1, Len(docs))
  IN IF limit > 0 /\ limit < Len(rest) THEN SubSeq(rest, 1, limit) ELSE rest

\* A query that does not write: `value` is what it returns when the database
\* operation succeeds.
Query(op, value, needs, args) ==
  /\ Idle
  /\ IF NotConnected
     THEN ret' = Raised(op, "NotConnected")
     ELSE \/ ret' = Raised(op, "DriverError")
          \/ /\ needs \subseteq indexes
             /\ ret' = Returned(op, value)
  /\ hist' = [hist EXCEPT !.args = args]
  /\ UNCHANGED << client, collection, indexes, places, now, call, features,
                  idx, results, connectSucceeded >>

\* $near needs the 2dsphere index; the documents' locations are not modelled.
FindNear == Query("findNear", << >>, { "location_2dsphere" }, NoArgs)

\* findByCategory(category, {limit, skip}) for a category of `asked`; an
\* option that is absent and one that is 0 are both falsy.
FindByCategoryOf(asked) ==
  \E cat \in asked, limit \in 0..MaxPage, skip \in 0..MaxPage :
    Query("findByCategory", Paginate(SelectSeq2(places, cat), limit, skip), { },
          [category |-> cat, limit |-> limit, skip |-> skip])

FindByCategory == FindByCategoryOf(Categories \cup { "other" })

\* $text needs the text index; the relevance ranking is not modelled.
Search == Query("search", << >>, { "text" }, NoArgs)

\* A field the document does not have groups under null.
FieldOf(doc, field) == IF field \in DOMAIN doc THEN doc[field] ELSE NULL

RECURSIVE Group(_, _)
\* { $group: { _id: "$field", count: { $sum: 1 } } }: one group per distinct
\* value, here in the order of the values' first documents.
Group(coll, field) ==
  IF coll = << >> THEN << >>
  ELSE LET rest == Group(SubSeq(coll, 1, Len(coll) - 1), field)
           v == FieldOf(coll[Len(coll)], field)
       IN IF \E k \in 1..Len(rest) : rest[k]._id = v
          THEN [ k \in 1..Len(rest) |->
                   IF rest[k]._id = v THEN [rest[k] EXCEPT !.count = @ + 1]
                   ELSE rest[k] ]
          ELSE Append(rest, [_id |-> v, count |-> 1])

Reverse(s) == [ k \in 1..Len(s) |-> s[Len(s) + 1 - k] ]

\* Where a group goes into a sequence sorted by count, largest first: behind
\* every group that counts at least as much.
InsertByCount(sorted, g) ==
  LET ahead == Cardinality({ k \in 1..Len(sorted) : sorted[k].count >= g.count })
  IN SubSeq(sorted, 1, ahead) \o << g >> \o SubSeq(sorted, ahead + 1, Len(sorted))

RECURSIVE SortByCount(_)
\* { $sort: { count: -1 } }, keeping the order of the groups that tie.
SortByCount(groups) ==
  IF groups = << >> THEN << >>
  ELSE InsertByCount(SortByCount(SubSeq(groups, 1, Len(groups) - 1)),
                     groups[Len(groups)])

\* Mutant of Limit: the $limit stage is left out.
Limit_None(s, n) == s

\* { $limit: n }
Limit(s, n) == IF Len(s) > n THEN SubSeq(s, 1, n) ELSE s

\* The aggregate of getStats over one field. The server does not say in which
\* order groups of equal count come out; `reversed` takes them in the order
\* of first appearance or in the opposite one.
CountsBy(coll, field, reversed) ==
  LET groups == Group(coll, field)
  IN SortByCount(IF reversed THEN Reverse(groups) ELSE groups)

\* getStats(): countDocuments and the two aggregates.
GetStats ==
  \E reversedCategories \in BOOLEAN, reversedSubcategories \in BOOLEAN :
    Query("getStats",
          [ total |-> Len(places),
            byCategory |-> CountsBy(places, "category", reversedCategories),
            topSubcategories |->
              Limit(CountsBy(places, "subcategory", reversedSubcategories), TopLimit) ],
          { }, NoArgs)

\* The properties exportAsGeoJSON copies from a document.
ExportedFields == { "name", "category", "subcategory", "tags", "address", "contact" }

\* A geometry object is truthy; null and a field the document lacks are not.
IsGeometry(doc, field) == field \in DOMAIN doc /\ doc[field].type # NULL

\* Mutant of ExportFeature: the location is exported whenever there is one.
ExportFeature_LocationFirst(doc) ==
  LET base == [ type |-> "Feature", id |-> doc.osm_id,
                properties |-> [ f \in ExportedFields \cap DOMAIN doc |-> doc[f] ] ]
  IN IF IsGeometry(doc, "location") THEN SetFields(base, [geometry |-> doc.location])
     ELSE IF "geometry" \in DOMAIN doc THEN SetFields(base, [geometry |-> doc.geometry])
     ELSE base

\* documents.map((doc) => ({ type, id, properties, geometry: doc.geometry ||
\* doc.location })); a property that reads undefined is a property the
\* feature does not have.
ExportFeature(doc) ==
  LET base == [ type |-> "Feature", id |-> doc.osm_id,
                properties |-> [ f \in ExportedFields \cap DOMAIN doc |-> doc[f] ] ]
  IN IF IsGeometry(doc, "geometry") THEN SetFields(base, [geometry |-> doc.geometry])
     ELSE IF "location" \in DOMAIN doc THEN SetFields(base, [geometry |-> doc.location])
     ELSE base

ExportAsGeoJSON ==
  Query("exportAsGeoJSON",
        [ type |-> "FeatureCollection",
          features |-> [ k \in 1..Len(places) |-> ExportFeature(places[k]) ] ],
        { }, NoArgs)

ClearCollection ==
  /\ Idle
  /\ IF NotConnected
     THEN ret' = Raised("clearCollection", "NotConnected") /\ places' = places
     ELSE \/ ret' = Raised("clearCollection", "DriverError") /\ places' = places
          \/ ret' = Returned("clearCollection", << Len(places) >>) /\ places' = << >>
  /\ UNCHANGED << client, collection, indexes, now, call, features, idx,
                  results, connectSucceeded, hist >>

(***************************************************************************)
(* Spec: one MongoDBStorage object and a caller that awaits every call.    *)
(***************************************************************************)
StoreInit ==
  /\ client = NULL
  /\ collection = NULL
  /\ indexes = { }
  /\ places = << >>
  /\ now = 0
  /\ call = "none"
  /\ features = << >>
  /\ idx = 1
  /\ results = NoResults
  /\ ret = NoRet
  /\ connectSucceeded = FALSE
  /\ hist = NoHist

\* No session runs.
SessOff ==
  /\ prog = "none"
  /\ mpc = "off"
  /\ processedFeatures = << >>
  /\ thrown = FALSE
  /\ exitCode = -1
  /\ disconnectCalled = FALSE

\* No multi-category run.
FetchOff ==
  /\ fpc = "off"
  /\ fcat = 1
  /\ attempted = << >>
  /\ failed = { }

\* No feature is being normalized.
CatOff ==
  /\ tags = << >>
  /\ category = "none"
  /\ subcategory = "none"

\* No build call was made.
NoBuild ==
  [self |-> 0, method |-> "none", bbox |-> << >>, input |-> << >>,
   after |-> << >>, out |-> "", returned |-> FALSE]
\* No response was received.
NoResponse == [status |-> 0, body |-> "none"]

\* No call of processForMongoDB.
NormOff ==
  /\ geojson = << >>
  /\ normalized = NoRet

\* No query builder was constructed.
QbOff ==
  /\ builders = << >>
  /\ remembered = NoBuild
  /\ built = NoBuild

\* No call of executeQuery.
ExOff ==
  /\ epc = "off"
  /\ equery = ""
  /\ requests = << >>
  /\ response = NoResponse
  /\ eret = NoRet

\* No call of the fetcher or of the query builder runs.
FetcherOff == NormOff /\ QbOff /\ ExOff

\* startPeriodicFetching was not called.
PerOff ==
  /\ cycles = << >>
  /\ installed = FALSE
  /\ exited = -1

\* A MongoDBStorage of the JavaScript variant as its constructor leaves it,
\* on an empty collection.
NoJs ==
  [ collection |-> NULL, places |-> << >>, call |-> "none", features |-> << >>,
    idx |-> 1, results |-> NoResults, ret |-> NoRet ]

\* No store of the JavaScript variant is used.
JsOff == js = NoJs

RunOff == PerOff /\ JsOff

Init == StoreInit /\ SessOff /\ FetchOff /\ CatOff /\ FetcherOff /\ RunOff

Next ==
  \/ Tick /\ UNCHANGED << sessVars, fetchVars, catVars, fetcherVars, runVars >>
  \/ Connect /\ UNCHANGED << sessVars, fetchVars, catVars, fetcherVars, runVars >>
  \/ CreateIndexes /\ UNCHANGED << sessVars, fetchVars, catVars, fetcherVars, runVars >>
  \/ Disconnect /\ UNCHANGED << sessVars, fetchVars, catVars, fetcherVars, runVars >>
  \/ StoreFeatures /\ UNCHANGED << sessVars, fetchVars, catVars, fetcherVars, runVars >>
  \/ StoreFeaturesStep /\ UNCHANGED << sessVars, fetchVars, catVars, fetcherVars, runVars >>
  \/ StoreFeaturesReturn /\ UNCHANGED << sessVars, fetchVars, catVars, fetcherVars, runVars >>
  \/ FindNear /\ UNCHANGED << sessVars, fetchVars, catVars, fetcherVars, runVars >>
  \/ FindByCategory /\ UNCHANGED << sessVars, fetchVars, catVars, fetcherVars, runVars >>
  \/ Search /\ UNCHANGED << sessVars, fetchVars, catVars, fetcherVars, runVars >>
  \/ GetStats /\ UNCHANGED << sessVars, fetchVars, catVars, fetcherVars, runVars >>
  \/ ExportAsGeoJSON /\ UNCHANGED << sessVars, fetchVars, catVars, fetcherVars, runVars >>
  \/ ClearCollection /\ UNCHANGED << sessVars, fetchVars, catVars, fetcherVars, runVars >>
  \/ Resume /\ UNCHANGED << sessVars, fetchVars, catVars, fetcherVars, runVars >>

Spec == Init /\ [][Next]_vars

(***************************************************************************)
(* SpecStore: a connected store, as main() has it after `await             *)
(* storage.connect()` when every index was created, and a caller that      *)
(* stores batches, repeats batches, queries and clears.                    *)
(***************************************************************************)
ConnectedStore ==
  /\ client = "connected"
  /\ collection = "places"
  /\ indexes = { IndexOrder[j] : j \in 1..Len(IndexOrder) }
  /\ places = << >>
  /\ now = 0
  /\ call = "none"
  /\ features = << >>
  /\ idx = 1
  /\ results = NoResults
  /\ ret = NoRet
  /\ connectSucceeded = TRUE
  /\ hist = NoHist

InitStore == ConnectedStore /\ SessOff /\ FetchOff /\ CatOff /\ FetcherOff /\ RunOff

NextStore ==
  \/ Tick /\ UNCHANGED << sessVars, fetchVars, catVars, fetcherVars, runVars >>
  \/ StoreFeatures /\ UNCHANGED << sessVars, fetchVars, catVars, fetcherVars, runVars >>
  \/ StoreFeaturesAgain /\ UNCHANGED << sessVars, fetchVars, catVars, fetcherVars, runVars >>
  \/ StoreFeaturesStep /\ UNCHANGED << sessVars, fetchVars, catVars, fetcherVars, runVars >>
  \/ StoreFeaturesReturn /\ UNCHANGED << sessVars, fetchVars, catVars, fetcherVars, runVars >>
  \/ FindNear /\ UNCHANGED << sessVars, fetchVars, catVars, fetcherVars, runVars >>
  \/ FindByCategory /\ UNCHANGED << sessVars, fetchVars, catVars, fetcherVars, runVars >>
  \/ Search /\ UNCHANGED << sessVars, fetchVars, catVars, fetcherVars, runVars >>
  \/ GetStats /\ UNCHANGED << sessVars, fetchVars, catVars, fetcherVars, runVars >>
  \/ ExportAsGeoJSON /\ UNCHANGED << sessVars, fetchVars, catVars, fetcherVars, runVars >>
  \/ ClearCollection /\ UNCHANGED << sessVars, fetchVars, catVars, fetcherVars, runVars >>
  \/ Resume /\ UNCHANGED << sessVars, fetchVars, catVars, fetcherVars, runVars >>

SpecStore == InitStore /\ [][NextStore]_vars

(***************************************************************************)
(* Properties of storeFeatures (checked under SpecStore).                  *)
(***************************************************************************)
StoredIds(coll) == { coll[k].osm_id : k \in 1..Len(coll) }
CountOf(coll, id) == Cardinality(Matching(coll, id))
DocOf(coll, id) == coll[CHOOSE k \in Matching(coll, id) : TRUE]
\* The document stored under id holds every field of the feature.
Holds(coll, id, feature) ==
  /\ id \in StoredIds(coll)
  /\ \A k \in DOMAIN feature : DocOf(coll, id)[k] = feature[k]

\* A step that is one turn of the loop of storeFeatures.
StepTaken == call = "storeFeatures" /\ idx' # idx
UpsertFailed == StepTaken /\ results'.errors # results.errors
UpsertSucceeded == StepTaken /\ results'.errors = results.errors
StoreReturned == ret.op = "storeFeatures" /\ ret.status = "returned"
Sum(res) == res.inserted + res.updated + res.errors

\* C1: after any sequence of storeFeatures calls on a connected store the
\* collection holds at most one document per osm_id; a successful upsert
\* leaves exactly one document of its osm_id, and no turn of the loop
\* removes a stored osm_id.
C1_OneRecordPerOsmId ==
  /\ [](\A id \in Ids : CountOf(places, id) <= 1)
  /\ [][UpsertSucceeded => CountOf(places', features[idx].osm_id) = 1]_vars
  /\ [][StepTaken => StoredIds(places) \subseteq StoredIds(places')]_vars

\* C1 witness: a batch that repeats an osm_id, sent a second time, was stored
\* without error and its osm_id is stored once.
C1_Witness ==
  /\ StoreReturned /\ hist.again /\ results.errors = 0
  /\ Len(features) = 2
  /\ features[1].osm_id = features[2].osm_id
  /\ features[1] # features[2]
  /\ CountOf(places, features[1].osm_id) = 1

\* C2: created_at of a stored document is the clock value of the upsert that
\* inserted its osm_id, and no step changes it while the document is stored.
C2_CreatedAtSetOnce ==
  [][ \A id \in Ids :
        /\ (id \in StoredIds(places) /\ id \in StoredIds(places'))
             => DocOf(places', id).created_at = DocOf(places, id).created_at
        /\ (id \notin StoredIds(places) /\ id \in StoredIds(places'))
             => (UpsertSucceeded /\ DocOf(places', id).created_at = now) ]_vars

\* C2 witness: a document inserted at an earlier clock value was updated by a
\* later storeFeatures call and still has its created_at.
C2_Witness ==
  /\ StoreReturned /\ Len(features) = 1 /\ results.updated = 1
  /\ DocOf(places, features[1].osm_id).created_at < now
  /\ DocOf(places, features[1].osm_id).name
       # DocOf(hist.before, features[1].osm_id).name

\* C3: a storeFeatures call with one record whose upsert is performed
\* (errors = 0) returns inserted=1, updated=0 when the osm_id was not stored
\* and inserted=0, updated=1 when it was stored with different field values;
\* afterwards exactly one document of the osm_id exists, it holds the call's
\* values and, on update, the created_at it had before.
C3_InsertThenUpdate ==
  (StoreReturned /\ Len(features) = 1 /\ results.errors = 0) =>
    LET f == features[1]
        id == f.osm_id
    IN /\ CountOf(places, id) = 1
       /\ Holds(places, id, f)
       /\ DOMAIN DocOf(places, id) = DOMAIN f \cup { "created_at" }
       /\ id \notin StoredIds(hist.before)
            => ret.value = [inserted |-> 1, updated |-> 0, errors |-> 0]
       /\ (id \in StoredIds(hist.before) /\ ~Holds(hist.before, id, f))
            => /\ ret.value = [inserted |-> 0, updated |-> 1, errors |-> 0]
               /\ DocOf(places, id).created_at = DocOf(hist.before, id).created_at

\* C3 witness: the second of two calls for the same osm_id returned
\* updated=1 and the document has the second call's name.
C3_Witness ==
  /\ StoreReturned /\ Len(features) = 1
  /\ ret.value = [inserted |-> 0, updated |-> 1, errors |-> 0]
  /\ features[1].osm_id \in StoredIds(hist.before)
  /\ DocOf(hist.before, features[1].osm_id).name # features[1].name
  /\ DocOf(places, features[1].osm_id).name = features[1].name

\* C4: a failing upsert adds exactly one to errors, changes neither the
\* collection nor the other counters, and the loop goes on with the next
\* record; a successful upsert writes its record; the call returns its
\* summary after every record of the batch had its turn.
C4_FailureIsolated ==
  /\ [][UpsertFailed =>
          /\ results' = [results EXCEPT !.errors = @ + 1]
          /\ places' = places
          /\ idx' = idx + 1
          /\ call' = "storeFeatures"]_vars
  /\ [][UpsertSucceeded =>
          /\ Holds(places', features[idx].osm_id, features[idx])
          /\ idx' = idx + 1]_vars
  /\ [][(call = "storeFeatures" /\ call' # "storeFeatures") =>
          /\ idx = Len(features) + 1
          /\ ret' = Returned("storeFeatures", results)]_vars

\* C4 witness: the first record of a batch of two failed, the second was
\* still inserted, and the call returned errors = 1.
C4_Witness ==
  /\ StoreReturned /\ Len(features) = 2
  /\ Conflicts(features[1])
  /\ ret.value = [inserted |-> 1, updated |-> 0, errors |-> 1]
  /\ Holds(places, features[2].osm_id, features[2])

\* C5: updated is incremented only by an upsert that matched a stored
\* document and changed a field of it; a performed upsert whose values are
\* the stored ones changes no counter; each turn adds at most one to the
\* counters, so inserted + updated + errors never exceeds the number of
\* records handled, nor the batch size.
C5_UpdatedCountsChanges ==
  /\ []((call = "storeFeatures" \/ StoreReturned) =>
          (Sum(results) <= idx - 1 /\ idx - 1 <= Len(features)))
  /\ [][StepTaken =>
          LET f == features[idx]
              id == f.osm_id
          IN /\ Sum(results') <= Sum(results) + 1
             /\ results'.updated # results.updated
                  => /\ results' = [results EXCEPT !.updated = @ + 1]
                     /\ id \in StoredIds(places)
                     /\ ~Holds(places, id, f)
             /\ (UpsertSucceeded /\ Holds(places, id, f))
                  => results' = results]_vars

\* C5 witness: a call returned with fewer counted records than the batch
\* holds, because an upsert wrote the values already stored.
C5_Witness ==
  /\ StoreReturned /\ Len(features) = 2
  /\ results.errors = 0
  /\ Sum(results) < Len(features)

C6_NotConnectedRaises ==
  [][(Idle /\ ~connectSucceeded /\ (ret'.op \in StoreOps \/ call' \in StoreOps)) =>
        /\ ret' = Raised(ret'.op, "NotConnected")
        /\ call' = "none"
        /\ places' = places
        /\ results' = results]_vars

\* C6 witness: after a failed connect(), getStats raised the not-connected
\* error.
C6_Witness ==
  /\ ~connectSucceeded
  /\ client = "new"
  /\ ret = Raised("getStats", "NotConnected")


(***************************************************************************)
(* SpecSession: one sync session, main() or fetchTourismOnly(), on a       *)
(* MongoDBStorage of its own.                                              *)
(***************************************************************************)
\* What processForMongoDB can return: records without created_at.
ProcessedBatches == SeqsUpTo(PlainFeatures, MaxBatch)

\* Where an exception thrown inside the try block goes: main has a catch
\* clause, fetchTourismOnly has only the finally clause.
OnThrow == IF prog = "main" THEN "catch" ELSE "finally"

\* A step of the try block that uses no store: it completes or throws.
Proceed(from, to) ==
  /\ mpc = from
  /\ \/ mpc' = to /\ thrown' = thrown
     \/ mpc' = OnThrow /\ thrown' = TRUE
  /\ UNCHANGED << prog, exitCode, disconnectCalled >>

\* await fetcher.fetchAllData() / fetcher.fetchTourismData(): the query is
\* built and executeQuery is awaited.
SessFetch ==
  /\ Proceed("fetch", "convert")
  /\ UNCHANGED << processedFeatures, storeVars >>

\* ... return this.convertToGeoJSON(osmData), which ends the awaited call.
SessConvert ==
  /\ Proceed("convert", IF prog = "main" THEN "backup" ELSE "process")
  /\ UNCHANGED << processedFeatures, storeVars >>

\* main: the GeoJSON backup (mkdirSync, writeFileSync)
SessBackup ==
  /\ Proceed("backup", "process")
  /\ UNCHANGED << processedFeatures, storeVars >>

\* fetcher.processForMongoDB(geojson)
SessProcess ==
  /\ Proceed("process", "connect")
  /\ processedFeatures' \in
       IF mpc' = "connect" THEN ProcessedBatches ELSE { processedFeatures }
  /\ UNCHANGED storeVars

\* await storage.connect(): the call
SessConnect ==
  /\ mpc = "connect"
  /\ Connect
  /\ mpc' = "awaitConnect"
  /\ UNCHANGED << prog, processedFeatures, thrown, exitCode, disconnectCalled >>

\* Mutant of Awaited: the outcome of the awaited call is not looked at.
Awaited_Unchecked(from, to) ==
  /\ mpc = from
  /\ Resume
  /\ mpc' = to /\ thrown' = thrown
  /\ UNCHANGED << prog, processedFeatures, exitCode, disconnectCalled >>

\* The awaited store call completed: the session goes on, or the exception
\* the call raised is thrown at the await.
Awaited(from, to) ==
  /\ mpc = from
  /\ Resume
  /\ IF ret.status = "returned"
     THEN mpc' = to /\ thrown' = thrown
     ELSE mpc' = OnThrow /\ thrown' = TRUE
  /\ UNCHANGED << prog, processedFeatures, exitCode, disconnectCalled >>

SessConnected == Awaited("awaitConnect", "store")

\* await storage.storeFeatures(processedFeatures): the call
SessStore ==
  /\ mpc = "store"
  /\ Idle
  /\ StoreFeaturesBegin(processedFeatures, FALSE)
  /\ mpc' = "awaitStore"
  /\ UNCHANGED << client, collection, indexes, places, now, connectSucceeded >>
  /\ UNCHANGED << prog, processedFeatures, thrown, exitCode, disconnectCalled >>

SessStored == Awaited("awaitStore", "stats")

\* await storage.getStats(): the call
SessStats ==
  /\ mpc = "stats"
  /\ GetStats
  /\ mpc' = "awaitStats"
  /\ UNCHANGED << prog, processedFeatures, thrown, exitCode, disconnectCalled >>

\* The statistics are logged and the try block ends.
SessLogged == Awaited("awaitStats", "finally")

\* main's catch clause: console.error, then process.exit(1). The process
\* ends there; the finally clause does not run.
SessCatch ==
  /\ mpc = "catch"
  /\ mpc' = "exited"
  /\ exitCode' = 1
  /\ UNCHANGED << prog, processedFeatures, thrown, disconnectCalled, storeVars >>

\* finally { await storage.disconnect() }: the call
SessFinally ==
  /\ mpc = "finally"
  /\ Disconnect
  /\ disconnectCalled' = TRUE
  /\ mpc' = "awaitDisconnect"
  /\ UNCHANGED << prog, processedFeatures, thrown, exitCode >>

\* After the finally clause the function returns, or the pending exception
\* rejects its promise.
SessEnd ==
  /\ mpc = "awaitDisconnect"
  /\ Resume
  /\ mpc' = IF thrown THEN "rejected" ELSE "done"
  /\ UNCHANGED << prog, processedFeatures, thrown, exitCode, disconnectCalled >>

InitSession ==
  /\ StoreInit
  /\ prog \in { "main", "fetchTourismOnly" }
  /\ mpc = "fetch"
  /\ processedFeatures = << >>
  /\ thrown = FALSE
  /\ exitCode = -1
  /\ disconnectCalled = FALSE
  /\ FetchOff
  /\ CatOff
  /\ FetcherOff
  /\ RunOff

NextSession ==
  \/ Tick /\ UNCHANGED << sessVars, fetchVars, catVars, fetcherVars, runVars >>
  \/ SessFetch /\ UNCHANGED << fetchVars, catVars, fetcherVars, runVars >>
  \/ SessConvert /\ UNCHANGED << fetchVars, catVars, fetcherVars, runVars >>
  \/ SessBackup /\ UNCHANGED << fetchVars, catVars, fetcherVars, runVars >>
  \/ SessProcess /\ UNCHANGED << fetchVars, catVars, fetcherVars, runVars >>
  \/ SessConnect /\ UNCHANGED << fetchVars, catVars, fetcherVars, runVars >>
  \/ CreateIndexes /\ UNCHANGED << sessVars, fetchVars, catVars, fetcherVars, runVars >>
  \/ SessConnected /\ UNCHANGED << fetchVars, catVars, fetcherVars, runVars >>
  \/ SessStore /\ UNCHANGED << fetchVars, catVars, fetcherVars, runVars >>
  \/ StoreFeaturesStep /\ UNCHANGED << sessVars, fetchVars, catVars, fetcherVars, runVars >>
  \/ StoreFeaturesReturn /\ UNCHANGED << sessVars, fetchVars, catVars, fetcherVars, runVars >>
  \/ SessStored /\ UNCHANGED << fetchVars, catVars, fetcherVars, runVars >>
  \/ SessStats /\ UNCHANGED << fetchVars, catVars, fetcherVars, runVars >>
  \/ SessLogged /\ UNCHANGED << fetchVars, catVars, fetcherVars, runVars >>
  \/ SessCatch /\ UNCHANGED << fetchVars, catVars, fetcherVars, runVars >>
  \/ SessFinally /\ UNCHANGED << fetchVars, catVars, fetcherVars, runVars >>
  \/ SessEnd /\ UNCHANGED << fetchVars, catVars, fetcherVars, runVars >>

SpecSession == InitSession /\ [][NextSession]_vars

SessionEnded == mpc \in { "done", "rejected", "exited" }

\* C7: when a sync session has ended, on whatever path, the connection it
\* opened is not left open: disconnect() has closed it.
C7_DisconnectOnEveryExit ==
  SessionEnded => client # "connected"


(***************************************************************************)
(* SpecFetch: the multi-category run, fetchOsmData(). Every awaited call   *)
(* completes or throws (weak fairness of the run's steps).                 *)
(***************************************************************************)
\* const categories = ["tourism", "historic", "natural", "leisure"]
CategoryList == << "tourism", "historic", "natural", "leisure" >>

\* for (const category of categories): the position after turn k
LoopNext(k) == IF k < Len(CategoryList) THEN "fetch" ELSE "fetchAll"

\* Mutant of OnCategoryError: the error is thrown on, out of fetchOsmData.
OnCategoryError_Rethrow(k) == "rejected"

\* catch (error) { console.error(...) } inside the loop: the next turn
OnCategoryError(k) == LoopNext(k)

\* existsSync / mkdirSync of the output directory, outside any try block
FetchMkdir ==
  /\ fpc = "start"
  /\ fpc' \in { "fetch", "rejected" }
  /\ UNCHANGED << fcat, attempted, failed >>

\* await fetcher.fetchByCategory(category)
FetchCategory ==
  /\ fpc = "fetch"
  /\ attempted' = Append(attempted, CategoryList[fcat])
  /\ \/ /\ fpc' = "save"
        /\ UNCHANGED << fcat, failed >>
     \/ /\ failed' = failed \cup { CategoryList[fcat] }
        /\ fpc' = OnCategoryError(fcat)
        /\ fcat' = fcat + 1

\* The features are written to the category's file, or there are none.
SaveCategory ==
  /\ fpc = "save"
  /\ \/ /\ fpc' = "sleep"
        /\ UNCHANGED << fcat, failed >>
     \/ /\ failed' = failed \cup { CategoryList[fcat] }
        /\ fpc' = OnCategoryError(fcat)
        /\ fcat' = fcat + 1
  /\ UNCHANGED attempted

\* await sleep(2000), the last statement of the try block
FetchSleep ==
  /\ fpc = "sleep"
  /\ fpc' = LoopNext(fcat)
  /\ fcat' = fcat + 1
  /\ UNCHANGED << attempted, failed >>

\* await fetcher.fetchAllData(), in a try block of its own
FetchAll ==
  /\ fpc = "fetchAll"
  /\ attempted' = Append(attempted, "all")
  /\ \/ fpc' = "saveAll" /\ failed' = failed
     \/ fpc' = "end" /\ failed' = failed \cup { "all" }
  /\ UNCHANGED fcat

\* The combined file, processForMongoDB and the processed file.
SaveAll ==
  /\ fpc = "saveAll"
  /\ fpc' = "end"
  /\ \/ failed' = failed
     \/ failed' = failed \cup { "all" }
  /\ UNCHANGED << fcat, attempted >>

\* The closing log lines; fetchOsmData returns.
FetchEnd ==
  /\ fpc = "end"
  /\ fpc' = "done"
  /\ UNCHANGED << fcat, attempted, failed >>

InitFetch ==
  /\ ConnectedStore
  /\ SessOff
  /\ fpc = "start"
  /\ fcat = 1
  /\ attempted = << >>
  /\ failed = { }
  /\ CatOff
  /\ FetcherOff
  /\ RunOff

NextFetch ==
  \/ FetchMkdir /\ UNCHANGED << storeVars, sessVars, catVars, fetcherVars, runVars >>
  \/ FetchCategory /\ UNCHANGED << storeVars, sessVars, catVars, fetcherVars, runVars >>
  \/ SaveCategory /\ UNCHANGED << storeVars, sessVars, catVars, fetcherVars, runVars >>
  \/ FetchSleep /\ UNCHANGED << storeVars, sessVars, catVars, fetcherVars, runVars >>
  \/ FetchAll /\ UNCHANGED << storeVars, sessVars, catVars, fetcherVars, runVars >>
  \/ SaveAll /\ UNCHANGED << storeVars, sessVars, catVars, fetcherVars, runVars >>
  \/ FetchEnd /\ UNCHANGED << storeVars, sessVars, catVars, fetcherVars, runVars >>

SpecFetch == InitFetch /\ [][NextFetch]_vars /\ WF_vars(NextFetch)

AllAttempts == CategoryList \o << "all" >>
IsPrefix(s, t) == Len(s) <= Len(t) /\ s = SubSeq(t, 1, Len(s))

\* C8: in fetchOsmData the fetches are started in list order, each at most
\* once and the combined fetch last, whatever attempts failed before; once
\* the loop is entered the run reaches its end, and at its end every category
\* and the combined fetch were attempted exactly once.
C8_EveryCategoryAttempted ==
  /\ [](IsPrefix(attempted, AllAttempts))
  /\ [](failed \subseteq { attempted[k] : k \in 1..Len(attempted) })
  /\ [](fpc = "done" => attempted = AllAttempts)
  /\ (fpc = "fetch") ~> (fpc = "done")

\* C8 witness: the run ended after the fetch or the save of every category
\* had failed, and the combined fetch was still attempted.
C8_Witness ==
  /\ fpc = "done"
  /\ { CategoryList[k] : k \in 1..Len(CategoryList) } \subseteq failed
  /\ attempted = AllAttempts

(***************************************************************************)
(* SpecCat: determineCategory and determineSubcategory on every tag map    *)
(* over the five category keys.                                            *)
(***************************************************************************)
\* A key that the tag map does not hold reads as undefined.
Undefined == "<undefined>"
TagKeys == { "tourism", "amenity", "historic", "natural", "leisure" }
TagValues == { Undefined, "", "museum", "cafe" }

\* JavaScript truthiness of a tag value: undefined and "" are falsy.
Truthy(v) == v # Undefined /\ v # ""

\* a || b
OrElse(a, b) == IF Truthy(a) THEN a ELSE b

determineCategory(t) ==
  IF Truthy(t["tourism"]) THEN "tourism"
  ELSE IF Truthy(t["amenity"]) THEN "amenity"
  ELSE IF Truthy(t["historic"]) THEN "historic"
  ELSE IF Truthy(t["natural"]) THEN "natural"
  ELSE IF Truthy(t["leisure"]) THEN "leisure"
  ELSE "other"

\* Mutant of determineSubcategory: amenity is read before tourism.
determineSubcategory_AmenityFirst(t) ==
  OrElse(OrElse(OrElse(OrElse(OrElse(t["amenity"], t["tourism"]), t["historic"]),
                       t["natural"]), t["leisure"]), "unknown")

determineSubcategory(t) ==
  OrElse(OrElse(OrElse(OrElse(OrElse(t["tourism"], t["amenity"]), t["historic"]),
                       t["natural"]), t["leisure"]), "unknown")

\* processForMongoDB: category and subcategory of the record
Determine ==
  /\ category = "none"
  /\ category' = determineCategory(tags)
  /\ subcategory' = determineSubcategory(tags)
  /\ UNCHANGED tags

InitCat ==
  /\ ConnectedStore
  /\ SessOff
  /\ FetchOff
  /\ tags \in [TagKeys -> TagValues]
  /\ category = "none"
  /\ subcategory = "none"
  /\ FetcherOff
  /\ RunOff

NextCat ==
  \/ Determine /\ UNCHANGED << storeVars, sessVars, fetchVars, fetcherVars, runVars >>

SpecCat == InitCat /\ [][NextCat]_vars

\* The priority order of the category keys.
Priority == << "tourism", "amenity", "historic", "natural", "leisure" >>
Present(t) == { k \in 1..Len(Priority) : t[Priority[k]] # Undefined /\ t[Priority[k]] # "" }
First(S) == CHOOSE m \in S : \A n \in S : m <= n

\* C10: the category of a tag map is the first key of tourism, amenity,
\* historic, natural, leisure that is present with a non-empty value and the
\* subcategory is the value of that key; with no such key they are "other"
\* and "unknown".
C10_CategoryByPriority ==
  category # "none" =>
    IF Present(tags) = { }
    THEN category = "other" /\ subcategory = "unknown"
    ELSE /\ category = Priority[First(Present(tags))]
         /\ subcategory = tags[Priority[First(Present(tags))]]

\* C10 witness: {tourism: museum, amenity: cafe} resolved to tourism/museum.
C10_Witness ==
  /\ tags["tourism"] = "museum" /\ tags["amenity"] = "cafe"
  /\ category = "tourism"
  /\ subcategory = "museum"

(***************************************************************************)
(* SpecNorm: processForMongoDB and calculateCentroid (osmFetcher.ts) on    *)
(* feature collections.                                                    *)
(***************************************************************************)
MaxVertices == 2
MaxFeatures == 2

\* JavaScript numbers. The coordinates of the model are small integers and
\* a quotient of two of them is kept exactly, as a reduced fraction: two
\* such quotients are the same double iff they are the same fraction.
Number(n) == [num |-> n, den |-> 1]

RECURSIVE Gcd(_, _)
Gcd(a, b) == IF b = 0 THEN a ELSE Gcd(b, a % b)

Reduce(n, d) == LET g == Gcd(n, d) IN [num |-> n \div g, den |-> d \div g]

\* a + b
Plus(a, b) == Reduce(a.num * b.den + b.num * a.den, a.den * b.den)
\* a / n, for an array length n > 0
Over(a, n) == Reduce(a.num, a.den * n)

Lons == { 0, 2 }
Lats == { 0, 2 }
Vertices == { << Number(x), Number(y) >> : x \in Lons, y \in Lats }

\* The outer ring [(0,0),(2,0),(2,2),(0,2)].
Square ==
  << << Number(0), Number(0) >>, << Number(2), Number(0) >>,
     << Number(2), Number(2) >>, << Number(0), Number(2) >> >>
\* An inner ring.
Hole == << << Number(2), Number(2) >> >>

Rings == SeqsUpTo(Vertices, MaxVertices) \cup { Square }

PolygonCoordinates ==
  { << >> } \cup { << r >> : r \in Rings } \cup { << r, Hole >> : r \in Rings }

MultiPolygonCoordinates ==
  { << >> } \cup { << p >> : p \in PolygonCoordinates }
            \cup { << p, << Square >> >> : p \in PolygonCoordinates }

\* feature.geometry is null
NullGeometry == [type |-> NULL, coordinates |-> << >>]

Points ==
  [type : { "Point" }, coordinates : Vertices \cup { << Number(80), Number(7) >> }]
LineStrings == [type : { "LineString" }, coordinates : Rings]
Polygons == [type : { "Polygon" }, coordinates : PolygonCoordinates]
MultiPolygons == [type : { "MultiPolygon" }, coordinates : MultiPolygonCoordinates]

Geometries ==
  { NullGeometry } \cup Points \cup LineStrings \cup Polygons \cup MultiPolygons

\* The geometries of the features of a collection of several features.
SomeGeometries ==
  { NullGeometry,
    [type |-> "Point", coordinates |-> << Number(80), Number(7) >>],
    [type |-> "LineString", coordinates |-> << >>],
    [type |-> "LineString", coordinates |-> Square],
    [type |-> "Polygon", coordinates |-> << >>],
    [type |-> "Polygon", coordinates |-> << << >> >>],
    [type |-> "Polygon", coordinates |-> << Square, Hole >>],
    [type |-> "MultiPolygon", coordinates |-> << << Square >> >>] }

NameKeys == { "name", "name:en", "name:si", "name:ta" }
NameValues == { Undefined, "", "Galle Fort", "Fort" }
AllTagKeys == TagKeys \cup NameKeys

\* The tags of a museum called Galle Fort.
MuseumTags ==
  [ k \in AllTagKeys |->
      IF k = "tourism" THEN "museum"
      ELSE IF k = "name" THEN "Galle Fort"
      ELSE Undefined ]

\* The same feature under every combination of the four name tags.
NameTags ==
  { [ k \in AllTagKeys |-> IF k \in NameKeys THEN n[k] ELSE MuseumTags[k] ] :
      n \in [NameKeys -> NameValues] }

\* feature.properties: osmtogeojson nests the tags under `tags`, or gives
\* them as the properties themselves (flatProperties).
Nested(t) == [tags |-> t]

FeatureIds == << "way/1", "way/2", "way/3", "way/4" >>

Feature(k, geometry, properties) ==
  [id |-> FeatureIds[k], geometry |-> geometry, properties |-> properties]

RECURSIVE FeatureSeqs(_, _)
\* The collections of n features with the given geometries, the k-th feature
\* having the k-th id.
FeatureSeqs(G, n) ==
  IF n = 0 THEN { << >> }
  ELSE { Append(s, Feature(n, g, Nested(MuseumTags))) :
           s \in FeatureSeqs(G, n - 1), g \in G }

\* The feature collections given to processForMongoDB.
Collections ==
  { << Feature(1, g, Nested(MuseumTags)) >> : g \in Geometries }
  \cup { << Feature(1, [type |-> "Point",
                         coordinates |-> << Number(80), Number(7) >>], p) >> :
           p \in NameTags \cup { Nested(t) : t \in NameTags } }
  \cup UNION { FeatureSeqs(SomeGeometries, n) : n \in 0..MaxFeatures }

\* Outcomes of an expression: a value, null, undefined or a TypeError thrown.
Value(v) == [kind |-> "value", value |-> v]
Null == [kind |-> "null", value |-> << >>]
Undef == [kind |-> "undefined", value |-> << >>]
TypeError == [kind |-> "TypeError", value |-> << >>]

\* a[0]: undefined past the end of the array; reading an index of undefined
\* throws.
First0(a) ==
  IF a.kind = "value"
  THEN IF Len(a.value) > 0 THEN Value(a.value[1]) ELSE Undef
  ELSE TypeError

RECURSIVE SumOf(_, _)
\* coords.forEach((coord) => { sum += coord[axis] }), from 0
SumOf(coords, axis) ==
  IF coords = << >> THEN Number(0)
  ELSE Plus(SumOf(SubSeq(coords, 1, Len(coords) - 1), axis),
            coords[Len(coords)][axis])

\* Mutant of calculateCentroid: the vertices of every ring of a Polygon are
\* averaged.
calculateCentroid_AllRings(geometry) ==
  LET RECURSIVE Flat(_)
      Flat(rings) == IF rings = << >> THEN << >> ELSE Head(rings) \o Flat(Tail(rings))
      coords ==
        IF geometry.type = "Polygon" THEN Value(Flat(geometry.coordinates))
        ELSE IF geometry.type = "LineString" THEN Value(geometry.coordinates)
        ELSE IF geometry.type = "MultiPolygon"
             THEN First0(First0(Value(geometry.coordinates)))
        ELSE Value(<< >>)
  IN IF coords.kind # "value" THEN TypeError
     ELSE IF Len(coords.value) = 0 THEN Null
     ELSE Value(<< Over(SumOf(coords.value, 1), Len(coords.value)),
                   Over(SumOf(coords.value, 2), Len(coords.value)) >>)

\* calculateCentroid(geometry): `coords.length` throws when coords is
\* undefined.
calculateCentroid(geometry) ==
  LET coords ==
        IF geometry.type = "Polygon" THEN First0(Value(geometry.coordinates))
        ELSE IF geometry.type = "LineString" THEN Value(geometry.coordinates)
        ELSE IF geometry.type = "MultiPolygon"
             THEN First0(First0(Value(geometry.coordinates)))
        ELSE Value(<< >>)
  IN IF coords.kind # "value" THEN TypeError
     ELSE IF Len(coords.value) = 0 THEN Null
     ELSE Value(<< Over(SumOf(coords.value, 1), Len(coords.value)),
                   Over(SumOf(coords.value, 2), Len(coords.value)) >>)

\* processForMongoDB: `coordinates` of one feature.
CoordinatesOf(feature) ==
  IF feature.geometry.type = NULL THEN Null
  ELSE IF feature.geometry.type = "Point" THEN Value(feature.geometry.coordinates)
  ELSE IF feature.geometry.type \in { "Polygon", "LineString" }
       THEN calculateCentroid(feature.geometry)
  ELSE Null

\* const tags = props.tags || props
TagsOf(props) == IF "tags" \in DOMAIN props THEN props["tags"] ELSE props

\* props.id: undefined where the properties have no id.
PropsId(props) == IF "id" \in DOMAIN props THEN props["id"] ELSE Undefined

\* Mutant of NameOf: name:en is read before name.
NameOf_EnglishFirst(t) == OrElse(OrElse(t["name:en"], t["name"]), "Unnamed")

\* String(tags.name || tags["name:en"] || "Unnamed")
NameOf(t) == OrElse(OrElse(t["name"], t["name:en"]), "Unnamed")

\* location: null
NoLocation == [type |-> NULL, coordinates |-> << >>]

\* The record processForMongoDB builds for a feature whose coordinates were
\* computed (address, contact and the other tag copies are left out).
PlaceOf(feature, coordinates) ==
  LET t == TagsOf(feature.properties)
  IN [ osm_id |-> OrElse(OrElse(feature.id, PropsId(feature.properties)), ""),
       name |-> NameOf(t),
       name_si |-> OrElse(t["name:si"], NULL),
       name_ta |-> OrElse(t["name:ta"], NULL),
       category |-> determineCategory(t),
       subcategory |-> determineSubcategory(t),
       geometry |-> feature.geometry,
       location |-> IF coordinates.kind = "value"
                    THEN [type |-> "Point", coordinates |-> coordinates.value]
                    ELSE NoLocation ]

RECURSIVE Filter(_)
\* processedFeatures.filter((f) => f.location !== null)
Filter(records) ==
  IF records = << >> THEN << >>
  ELSE IF Head(records).location # NoLocation
       THEN << Head(records) >> \o Filter(Tail(records))
       ELSE Filter(Tail(records))

\* processForMongoDB(geojson): an exception thrown while a feature is mapped
\* ends the call.
processForMongoDB(collection_) ==
  LET coordinates == [ k \in 1..Len(collection_) |-> CoordinatesOf(collection_[k]) ]
  IN IF \E k \in 1..Len(collection_) : coordinates[k].kind = "TypeError"
     THEN Raised("processForMongoDB", "TypeError")
     ELSE Returned("processForMongoDB",
                   Filter([ k \in 1..Len(collection_) |->
                              PlaceOf(collection_[k], coordinates[k]) ]))

Normalize ==
  /\ normalized.status = "none"
  /\ normalized' = processForMongoDB(geojson)
  /\ UNCHANGED geojson

InitNorm ==
  /\ ConnectedStore
  /\ SessOff
  /\ FetchOff
  /\ CatOff
  /\ geojson \in Collections
  /\ normalized = NoRet
  /\ QbOff
  /\ ExOff
  /\ RunOff

NextNorm ==
  \/ Normalize /\ UNCHANGED << storeVars, sessVars, fetchVars, catVars, qbVars, exVars, runVars >>

SpecNorm == InitNorm /\ [][NextNorm]_vars

(***************************************************************************)
(* Properties of the normalizer (checked under SpecNorm).                  *)
(***************************************************************************)
\* The vertex list the location of a geometry is resolved from: the pair of
\* a Point, the vertices of a LineString, the first ring of a Polygon, the
\* first ring of the first polygon of a MultiPolygon; none where that ring
\* does not exist.
VertexList(g) ==
  IF g.type = "Point" THEN << g.coordinates >>
  ELSE IF g.type = "LineString" THEN g.coordinates
  ELSE IF g.type = "Polygon" /\ Len(g.coordinates) > 0 THEN g.coordinates[1]
  ELSE IF g.type = "MultiPolygon" /\ Len(g.coordinates) > 0
          /\ Len(g.coordinates[1]) > 0 THEN g.coordinates[1][1]
  ELSE << >>

Resolvable(feature) == VertexList(feature.geometry) # << >>

RECURSIVE IdsOfResolvable(_)
IdsOfResolvable(coll) ==
  IF coll = << >> THEN << >>
  ELSE IF Resolvable(Head(coll))
       THEN << Head(coll).id >> \o IdsOfResolvable(Tail(coll))
       ELSE IdsOfResolvable(Tail(coll))

RECURSIVE Total(_, _)
\* The sum of the integer coordinates of the vertices on one axis.
Total(vertices, axis) ==
  IF vertices = << >> THEN 0
  ELSE vertices[1][axis].num + Total(Tail(vertices), axis)

\* The pair is the arithmetic mean of the vertices.
IsMean(pair, vertices) ==
  /\ Len(pair) = 2
  /\ \A axis \in 1..2 :
       /\ pair[axis].den > 0
       /\ pair[axis].num * Len(vertices) = Total(vertices, axis) * pair[axis].den

NormReturned == normalized.status = "returned"
RecordsOf(id) ==
  { k \in 1..Len(normalized.value) : normalized.value[k].osm_id = id }
HasMultiPolygon ==
  \E k \in 1..Len(geojson) :
    geojson[k].geometry.type = "MultiPolygon" /\ Resolvable(geojson[k])

\* C11: processForMongoDB never fails and returns exactly the input features
\* whose location can be resolved, in input order, each with a location of
\* type Point; features with null geometry, an empty vertex list or a
\* Polygon without rings are left out. (Collections with a MultiPolygon that
\* has vertices are the subject of C12 and are not judged here.)
C11_UnresolvableLeftOut ==
  (normalized.status # "none" /\ ~HasMultiPolygon) =>
    /\ NormReturned
    /\ [ k \in 1..Len(normalized.value) |-> normalized.value[k].osm_id ]
         = IdsOfResolvable(geojson)
    /\ \A k \in 1..Len(normalized.value) :
         normalized.value[k].location.type = "Point"

\* C12: a MultiPolygon feature with a non-empty first outer ring is
\* normalized to a record whose location is the mean of the vertices of that
\* ring.
C12_MultiPolygonCentroid ==
  NormReturned =>
    \A k \in 1..Len(geojson) :
      (geojson[k].geometry.type = "MultiPolygon" /\ Resolvable(geojson[k])) =>
        \E r \in RecordsOf(geojson[k].id) :
          /\ normalized.value[r].location.type = "Point"
          /\ IsMean(normalized.value[r].location.coordinates,
                    VertexList(geojson[k].geometry))

\* C13: a Point feature is normalized to a record whose location is its
\* coordinate pair; a Polygon with a non-empty first ring to the mean of the
\* vertices of that ring, whatever its other rings; a non-empty LineString
\* to the mean of all its vertices.
C13_LocationResolution ==
  NormReturned =>
    \A k \in 1..Len(geojson) :
      LET g == geojson[k].geometry
      IN (g.type \in { "Point", "Polygon", "LineString" } /\ Resolvable(geojson[k])) =>
           /\ Cardinality(RecordsOf(geojson[k].id)) = 1
           /\ \A r \in RecordsOf(geojson[k].id) :
                LET location == normalized.value[r].location
                IN /\ location.type = "Point"
                   /\ g.type = "Point" => location.coordinates = g.coordinates
                   /\ g.type = "Polygon" => IsMean(location.coordinates, g.coordinates[1])
                   /\ g.type = "LineString" => IsMean(location.coordinates, g.coordinates)

\* C13 witness: the polygon with outer ring [(0,0),(2,0),(2,2),(0,2)] and an
\* inner ring was given the location (1,1).
C13_Witness ==
  /\ NormReturned
  /\ Len(geojson) = 1
  /\ geojson[1].geometry = [type |-> "Polygon", coordinates |-> << Square, Hole >>]
  /\ Len(normalized.value) = 1
  /\ normalized.value[1].location.coordinates = << Number(1), Number(1) >>

\* The value of a tag when it is present and not empty.
NonEmpty(t, k) == t[k] # Undefined /\ t[k] # ""

\* C14: the name of a record is tag name when non-empty, else tag name:en
\* when non-empty, else "Unnamed"; name_si and name_ta are the values of
\* name:si and name:ta when these are present and non-empty, each whatever
\* the other name tags are, and null otherwise.
C14_NameFallback ==
  NormReturned =>
    \A k \in 1..Len(geojson) : \A r \in RecordsOf(geojson[k].id) :
      LET t == IF "tags" \in DOMAIN geojson[k].properties
               THEN geojson[k].properties["tags"] ELSE geojson[k].properties
          place == normalized.value[r]
      IN /\ place.name = IF NonEmpty(t, "name") THEN t["name"]
                         ELSE IF NonEmpty(t, "name:en") THEN t["name:en"]
                         ELSE "Unnamed"
         /\ place.name_si = IF NonEmpty(t, "name:si") THEN t["name:si"] ELSE NULL
         /\ place.name_ta = IF NonEmpty(t, "name:ta") THEN t["name:ta"] ELSE NULL

\* C14 witness: a feature without name, with name:en and name:si and without
\* name:ta was named by name:en, with name_si set and name_ta null.
C14_Witness ==
  /\ NormReturned
  /\ Len(geojson) = 1 /\ Len(normalized.value) = 1
  /\ "tags" \notin DOMAIN geojson[1].properties
  /\ geojson[1].properties["name"] = Undefined
  /\ geojson[1].properties["name:en"] = "Fort"
  /\ geojson[1].properties["name:si"] = "Galle Fort"
  /\ geojson[1].properties["name:ta"] = Undefined
  /\ normalized.value[1].name = "Fort"
  /\ normalized.value[1].name_si = "Galle Fort"
  /\ normalized.value[1].name_ta = NULL

(***************************************************************************)
(* SpecIdentity: the osm_id processForMongoDB assigns. GeoJSONFeature      *)
(* declares `id?: string | number`; the features of a collection carry     *)
(* their id as feature.id, as properties.id, as both or not at all. The    *)
(* normalized batch is then stored into the empty collection.              *)
(***************************************************************************)
MaxIdFeatures == 3

\* The k-th feature: a point with the tags of a museum, and its id (the k-th
\* id) where the feature carries one.
IdFeature(k, id, propsId) ==
  [ id |-> IF id THEN FeatureIds[k] ELSE Undefined,
    geometry |-> [type |-> "Point", coordinates |-> << Number(80), Number(7) >>],
    properties |-> IF propsId THEN [tags |-> MuseumTags, id |-> FeatureIds[k]]
                   ELSE Nested(MuseumTags) ]

RECURSIVE IdFeatureSeqs(_)
IdFeatureSeqs(n) ==
  IF n = 0 THEN { << >> }
  ELSE { Append(s, IdFeature(n, id, propsId)) :
           s \in IdFeatureSeqs(n - 1), id \in BOOLEAN, propsId \in BOOLEAN }

IdCollections == UNION { IdFeatureSeqs(n) : n \in 0..MaxIdFeatures }

\* main: await storage.storeFeatures(processedFeatures)
StoreNormalized ==
  /\ Idle
  /\ normalized.status = "returned"
  /\ places = << >> /\ features = << >>
  /\ normalized.value # << >>
  /\ StoreFeaturesBegin(normalized.value, FALSE)
  /\ UNCHANGED << client, collection, indexes, places, now, connectSucceeded >>

InitIdentity ==
  /\ ConnectedStore
  /\ SessOff
  /\ FetchOff
  /\ CatOff
  /\ geojson \in IdCollections
  /\ normalized = NoRet
  /\ QbOff
  /\ ExOff
  /\ RunOff

NextIdentity ==
  \/ Normalize /\ UNCHANGED << storeVars, sessVars, fetchVars, catVars, qbVars, exVars, runVars >>
  \/ StoreNormalized /\ UNCHANGED << sessVars, fetchVars, catVars, normVars, qbVars, exVars, runVars >>
  \/ StoreFeaturesStep /\ UNCHANGED << sessVars, fetchVars, catVars, normVars, qbVars, exVars, runVars >>
  \/ StoreFeaturesReturn /\ UNCHANGED << sessVars, fetchVars, catVars, normVars, qbVars, exVars, runVars >>

SpecIdentity == InitIdentity /\ [][NextIdentity]_vars

(***************************************************************************)
(* Properties of the assigned osm_id (checked under SpecIdentity).         *)
(***************************************************************************)
\* The feature carries an id, as feature.id or as properties.id.
CarriesId(feature) ==
  Truthy(feature.id) \/ Truthy(PropsId(feature.properties))

\* The osm_ids of the records are non-empty and pairwise different.
DistinctIds(records) ==
  /\ \A k \in 1..Len(records) : records[k].osm_id # ""
  /\ \A j, k \in 1..Len(records) : j # k => records[j].osm_id # records[k].osm_id

\* The normalized batch was stored, every upsert having succeeded.
NormalizedStored ==
  /\ StoreReturned
  /\ features = normalized.value
  /\ results.errors = 0

\* C29: every record processForMongoDB returns has a non-empty osm_id, two
\* different input features never receive the same osm_id, and a normalized
\* batch of k features (all with resolvable location) stored without error
\* into the empty collection leaves k documents.
C29_DistinctOsmIds ==
  /\ NormReturned => DistinctIds(normalized.value)
  /\ NormalizedStored => Len(places) = Len(geojson)

\* Where every feature of the collection carries an id the records have
\* non-empty, pairwise different osm_ids and the stored batch leaves one
\* document per feature.
DistinctIdsWhereCarried ==
  (\A k \in 1..Len(geojson) : CarriesId(geojson[k])) =>
    /\ NormReturned => DistinctIds(normalized.value)
    /\ NormalizedStored => Len(places) = Len(geojson)

\* Two features without id were normalized to two records with osm_id "" and
\* the stored batch left one document.
TwoFeaturesOneDocument ==
  /\ NormalizedStored
  /\ Len(geojson) = 2
  /\ ~CarriesId(geojson[1]) /\ ~CarriesId(geojson[2])
  /\ Len(places) = 1

(***************************************************************************)
(* SpecQuery: OverpassQueryBuilder (queryBuilder.js). Builders are         *)
(* constructed and their build methods are called in any order.            *)
(***************************************************************************)
MaxTags == 2
MaxBuilders == 2

\* Bounding boxes, with whole-degree bounds.
Bboxes ==
  { [south |-> 5, west |-> 79, north |-> 9, east |-> 81],
    [south |-> 6, west |-> 80, north |-> 10, east |-> 82] }

TagWords == << "museum", "hotel", "viewpoint", "zoo" >>
\* The tag lists given to a build method: the first n words.
TagLists == { SubSeq(TagWords, 1, n) : n \in 0..MaxTags }

Dimensions ==
  { "tourismTags", "amenityTags", "historicTags", "naturalTags", "leisureTags" }

\* The TagConfig objects given to buildComprehensiveQuery. A dimension the
\* object does not hold is outside the domain.
TagConfigs ==
  { [ d \in (IF t = 0 THEN { } ELSE { "tourismTags" })
             \cup (IF a = 0 THEN { } ELSE { "amenityTags" })
             \cup (IF a < 2 THEN { }
                   ELSE { "historicTags", "naturalTags", "leisureTags" }) |->
        IF d = "tourismTags" THEN SubSeq(TagWords, 1, t - 1)
        ELSE IF d = "amenityTags" THEN SubSeq(<< "cafe" >>, 1, a - 1)
        ELSE IF d = "historicTags" THEN << "ruins" >>
        ELSE IF d = "naturalTags" THEN << "beach" >>
        ELSE << "park" >> ] :
      t \in 0..(MaxTags + 1), a \in 0..2 }

RECURSIVE Join(_, _)
\* strings.join(separator)
Join(strings, separator) ==
  IF Len(strings) = 0 THEN ""
  ELSE IF Len(strings) = 1 THEN strings[1]
  ELSE Join(SubSeq(strings, 1, Len(strings) - 1), separator)
         \o separator \o strings[Len(strings)]

\* Mutant of getBboxString: the bbox is kept in one place shared by all
\* builders, where each constructor call overwrites it.
getBboxString_Shared(self) ==
  LET b == builders[Len(builders)].bbox
  IN ToString(b.south) \o "," \o ToString(b.west) \o ","
       \o ToString(b.north) \o "," \o ToString(b.east)

\* getBboxString(): `${south},${west},${north},${east}`
getBboxString(self) ==
  ToString(self.bbox.south) \o "," \o ToString(self.bbox.west) \o ","
    \o ToString(self.bbox.north) \o "," \o ToString(self.bbox.east)

\* `node["key"="${tag}"](${bboxStr});` and `way["key"="${tag}"](${bboxStr});`
FilterOf(kind, key, tag, bboxStr) ==
  kind \o "[\"" \o key \o "\"=\"" \o tag \o "\"](" \o bboxStr \o ");"

\* The body shared by the five single-dimension build methods.
BuildFor(self, key, list) ==
  LET bboxStr == getBboxString(self)
      tagFilters ==
        Join([ k \in 1..Len(list) |-> FilterOf("node", key, list[k], bboxStr) ], "\n  ")
      wayFilters ==
        Join([ k \in 1..Len(list) |-> FilterOf("way", key, list[k], bboxStr) ], "\n  ")
  IN "\n[out:json][timeout:180];\n(\n  " \o tagFilters \o "\n  " \o wayFilters
       \o "\n);\nout body;\n>;\nout skel qt;\n"

buildTourismQuery(self, list) == BuildFor(self, "tourism", list)
buildAmenityQuery(self, list) == BuildFor(self, "amenity", list)
buildHistoricQuery(self, list) == BuildFor(self, "historic", list)
buildNaturalQuery(self, list) == BuildFor(self, "natural", list)
buildLeisureQuery(self, list) == BuildFor(self, "leisure", list)

RECURSIVE PushFilters(_, _, _)
\* list.forEach((tag) => { filters.push(node...); filters.push(way...) })
PushFilters(key, list, bboxStr) ==
  IF list = << >> THEN << >>
  ELSE << FilterOf("node", key, Head(list), bboxStr),
          FilterOf("way", key, Head(list), bboxStr) >>
         \o PushFilters(key, Tail(list), bboxStr)

\* Mutant of DimensionFilters: a dimension with one value is skipped
\* (length > 1 in place of length > 0).
DimensionFilters_SkipSingle(tagConfig, dimension, key, bboxStr) ==
  IF dimension \in DOMAIN tagConfig /\ Len(tagConfig[dimension]) > 1
  THEN PushFilters(key, tagConfig[dimension], bboxStr)
  ELSE << >>

\* if (xTags && xTags.length > 0) { xTags.forEach(...) }
DimensionFilters(tagConfig, dimension, key, bboxStr) ==
  IF dimension \in DOMAIN tagConfig /\ Len(tagConfig[dimension]) > 0
  THEN PushFilters(key, tagConfig[dimension], bboxStr)
  ELSE << >>

buildComprehensiveQuery(self, tagConfig) ==
  LET bboxStr == getBboxString(self)
      filters ==
        DimensionFilters(tagConfig, "tourismTags", "tourism", bboxStr)
          \o DimensionFilters(tagConfig, "amenityTags", "amenity", bboxStr)
          \o DimensionFilters(tagConfig, "historicTags", "historic", bboxStr)
          \o DimensionFilters(tagConfig, "naturalTags", "natural", bboxStr)
          \o DimensionFilters(tagConfig, "leisureTags", "leisure", bboxStr)
  IN "\n[out:json][timeout:300];\n(\n  " \o Join(filters, "\n  ")
       \o "\n);\nout body;\n>;\nout skel qt;\n"

\* No build call is running: the methods are synchronous.
NoneRunning == built.method = "none" \/ built.returned

\* new OverpassQueryBuilder(bbox)
Construct ==
  /\ NoneRunning
  /\ Len(builders) < MaxBuilders
  /\ \E bbox \in Bboxes : builders' = Append(builders, [bbox |-> bbox])
  /\ UNCHANGED << remembered, built >>

\* A build method is called on builder i.
Called(i, method, input) ==
  /\ NoneRunning
  /\ built' = [self |-> i, method |-> method, bbox |-> builders[i].bbox,
               input |-> input, after |-> input, out |-> "", returned |-> FALSE]
  /\ \/ remembered' = remembered
     \/ remembered = NoBuild /\ built # NoBuild /\ remembered' = built
  /\ UNCHANGED builders

\* The running call of `method` returns `out`: it assigned no field of the
\* builder and wrote neither its argument nor the bbox object.
Returns(method, out) ==
  /\ built.method = method /\ ~built.returned
  /\ built' = [built EXCEPT !.out = out, !.returned = TRUE]
  /\ UNCHANGED << builders, remembered >>

BuildTourism ==
  \/ \E i \in 1..Len(builders), list \in TagLists :
       Called(i, "buildTourismQuery", list)
  \/ Returns("buildTourismQuery", buildTourismQuery(builders[built.self], built.input))

BuildAmenity ==
  \/ \E i \in 1..Len(builders), list \in TagLists :
       Called(i, "buildAmenityQuery", list)
  \/ Returns("buildAmenityQuery", buildAmenityQuery(builders[built.self], built.input))

BuildHistoric ==
  \/ \E i \in 1..Len(builders), list \in TagLists :
       Called(i, "buildHistoricQuery", list)
  \/ Returns("buildHistoricQuery", buildHistoricQuery(builders[built.self], built.input))

BuildNatural ==
  \/ \E i \in 1..Len(builders), list \in TagLists :
       Called(i, "buildNaturalQuery", list)
  \/ Returns("buildNaturalQuery", buildNaturalQuery(builders[built.self], built.input))

BuildLeisure ==
  \/ \E i \in 1..Len(builders), list \in TagLists :
       Called(i, "buildLeisureQuery", list)
  \/ Returns("buildLeisureQuery", buildLeisureQuery(builders[built.self], built.input))

BuildComprehensive ==
  \/ \E i \in 1..Len(builders), tagConfig \in TagConfigs :
       Called(i, "buildComprehensiveQuery", tagConfig)
  \/ Returns("buildComprehensiveQuery",
             buildComprehensiveQuery(builders[built.self], built.input))

InitQuery ==
  /\ ConnectedStore
  /\ SessOff
  /\ FetchOff
  /\ CatOff
  /\ NormOff
  /\ QbOff
  /\ ExOff
  /\ RunOff

NextQuery ==
  \/ Construct /\ UNCHANGED << storeVars, sessVars, fetchVars, catVars, normVars, exVars, runVars >>
  \/ BuildTourism /\ UNCHANGED << storeVars, sessVars, fetchVars, catVars, normVars, exVars, runVars >>
  \/ BuildAmenity /\ UNCHANGED << storeVars, sessVars, fetchVars, catVars, normVars, exVars, runVars >>
  \/ BuildHistoric /\ UNCHANGED << storeVars, sessVars, fetchVars, catVars, normVars, exVars, runVars >>
  \/ BuildNatural /\ UNCHANGED << storeVars, sessVars, fetchVars, catVars, normVars, exVars, runVars >>
  \/ BuildLeisure /\ UNCHANGED << storeVars, sessVars, fetchVars, catVars, normVars, exVars, runVars >>
  \/ BuildComprehensive /\ UNCHANGED << storeVars, sessVars, fetchVars, catVars, normVars, exVars, runVars >>

SpecQuery == InitQuery /\ [][NextQuery]_vars

(***************************************************************************)
(* Properties of the query builder (checked under SpecQuery).              *)
(***************************************************************************)
\* The number of places where `part` occurs in `text`.
Occurrences(text, part) ==
  Cardinality({ i \in 1..(Len(text) - Len(part) + 1) :
                  /\ SubSeq(text, i, i) = SubSeq(part, 1, 1)
                  /\ SubSeq(text, i, i + Len(part) - 1) = part })

\* The tag key of a build method or of a dimension of the composite query.
KeyOf ==
  [ m \in { "buildTourismQuery", "buildAmenityQuery", "buildHistoricQuery",
            "buildNaturalQuery", "buildLeisureQuery" } \cup Dimensions |->
      IF m \in { "buildTourismQuery", "tourismTags" } THEN "tourism"
      ELSE IF m \in { "buildAmenityQuery", "amenityTags" } THEN "amenity"
      ELSE IF m \in { "buildHistoricQuery", "historicTags" } THEN "historic"
      ELSE IF m \in { "buildNaturalQuery", "naturalTags" } THEN "natural"
      ELSE "leisure" ]

\* The text of the filter clause of one element kind for key = value in bbox.
ClauseText(kind, key, value, bbox) ==
  kind \o "[\"" \o key \o "\"=\"" \o value \o "\"]("
    \o ToString(bbox.south) \o "," \o ToString(bbox.west) \o ","
    \o ToString(bbox.north) \o "," \o ToString(bbox.east) \o ");"

\* The tag lists of a call, by tag key: one list for a single-dimension
\* method, the lists of the dimensions it holds for the composite query.
ListsOf(c) ==
  IF c.method = "buildComprehensiveQuery"
  THEN [ d \in DOMAIN c.input |-> c.input[d] ]
  ELSE [ d \in { c.method } |-> c.input ]

RECURSIVE SumLen(_, _)
SumLen(lists, D) ==
  IF D = { } THEN 0
  ELSE LET d == CHOOSE x \in D : TRUE
       IN Len(lists[d]) + SumLen(lists, D \ { d })

\* The number of values over all the lists of a call.
ValuesOf(c) == SumLen(ListsOf(c), DOMAIN ListsOf(c))

\* The filter clauses of the query a call returned.
ClausesOf(c) == Occurrences(c.out, "node[") + Occurrences(c.out, "way[")

\* The query has, for every value of every list, as many node clauses and as
\* many way clauses with the builder's bbox as the list has that value.
OneClausePerValue(c) ==
  LET lists == ListsOf(c)
      bbox == builders[c.self].bbox
  IN \A d \in DOMAIN lists :
       LET list == lists[d]
       IN \A k \in 1..Len(list) : \A kind \in { "node", "way" } :
            Occurrences(c.out, ClauseText(kind, KeyOf[d], list[k], bbox))
              = Cardinality({ j \in 1..Len(list) : list[j] = list[k] })

SameInputs(a, b) ==
  /\ a.returned /\ b.returned
  /\ a.method = b.method
  /\ a.bbox = b.bbox
  /\ a.input = b.input

\* List b is list a with one value appended.
Appended(a, b) == Len(b) = Len(a) + 1 /\ SubSeq(b, 1, Len(a)) = a

\* Call b has the inputs of call a with one value appended to one tag list.
OneValueAppended(a, b) ==
  /\ a.returned /\ b.returned
  /\ a.method = b.method
  /\ a.bbox = b.bbox
  /\ DOMAIN ListsOf(a) = DOMAIN ListsOf(b)
  /\ \E d \in DOMAIN ListsOf(a) :
       /\ Appended(ListsOf(a)[d], ListsOf(b)[d])
       /\ \A e \in DOMAIN ListsOf(a) \ { d } : ListsOf(a)[e] = ListsOf(b)[e]

C16_ClauseCount ==
  /\ built.returned =>
       /\ Occurrences(built.out, "node[") = ValuesOf(built)
       /\ Occurrences(built.out, "way[") = ValuesOf(built)
       /\ OneClausePerValue(built)
  /\ OneValueAppended(remembered, built) =>
       /\ ClausesOf(built) > ClausesOf(remembered)
       /\ \A d \in DOMAIN ListsOf(remembered) :
            \A k \in 1..Len(ListsOf(remembered)[d]) : \A kind \in { "node", "way" } :
              LET clause == ClauseText(kind, KeyOf[d], ListsOf(remembered)[d][k],
                                       remembered.bbox)
              IN Occurrences(built.out, clause) >= Occurrences(remembered.out, clause)

\* C16 witness: a composite query for two tourism values, an empty amenity
\* list and no other dimension has four clauses, after the same with one
\* tourism value had two.
C16_Witness ==
  /\ built.method = "buildComprehensiveQuery"
  /\ built.returned
  /\ DOMAIN built.input = { "tourismTags", "amenityTags" }
  /\ Len(built.input["tourismTags"]) = 2
  /\ built.input["amenityTags"] = << >>
  /\ OneValueAppended(remembered, built)
  /\ ClausesOf(remembered) = 2
  /\ ClausesOf(built) = 4

(***************************************************************************)
(* SpecExec: one call of executeQuery (osmFetcher.ts) against an endpoint  *)
(* that answers, answers with an error status, or is not reached.          *)
(***************************************************************************)
\* The queries given to executeQuery.
Queries ==
  { buildTourismQuery([bbox |-> b], << "museum" >>) : b \in Bboxes }
  \cup { buildComprehensiveQuery([bbox |-> b], [tourismTags |-> << "museum", "hotel" >>]) :
           b \in Bboxes }

\* The characters of a query that encodeURIComponent escapes, with their
\* escapes; it keeps letters, digits and - _ . ! ~ * ' ( ).
Escapes ==
  [ c \in { "\n", " ", "[", "]", ":", ";", "\"", "=", ",", ">" } |->
      IF c = "\n" THEN "%0A"
      ELSE IF c = " " THEN "%20"
      ELSE IF c = "[" THEN "%5B"
      ELSE IF c = "]" THEN "%5D"
      ELSE IF c = ":" THEN "%3A"
      ELSE IF c = ";" THEN "%3B"
      ELSE IF c = "\"" THEN "%22"
      ELSE IF c = "=" THEN "%3D"
      ELSE IF c = "," THEN "%2C"
      ELSE "%3E" ]

RECURSIVE encodeURIComponent(_)
\* Character by character (the text is halved to keep the recursion shallow).
encodeURIComponent(text) ==
  IF Len(text) = 0 THEN ""
  ELSE IF Len(text) = 1
       THEN IF text \in DOMAIN Escapes THEN Escapes[text] ELSE text
  ELSE LET half == Len(text) \div 2
       IN encodeURIComponent(SubSeq(text, 1, half))
            \o encodeURIComponent(SubSeq(text, half + 1, Len(text)))

\* The response bodies the endpoint sends, and the value JSON.parse gives
\* for those that are JSON texts.
JsonTexts ==
  [ t \in { "{\"elements\":[]}", "{\"elements\":[{\"type\":\"node\",\"id\":1}]}",
            "{\"remark\":\"runtime error\"}" } |->
      IF t = "{\"elements\":[]}" THEN [elements |-> << >>]
      ELSE IF t = "{\"remark\":\"runtime error\"}" THEN [remark |-> "runtime error"]
      ELSE [elements |-> << [type |-> "node", id |-> 1] >>] ]

Bodies == DOMAIN JsonTexts \cup { "<html>Too Many Requests</html>", "" }
Statuses == { 200, 204, 400, 429, 504 }
Responses == [status : Statuses, body : Bodies]

\* response.ok
Ok(r) == r.status >= 200 /\ r.status <= 299

\* Mutant of Rethrow: the request is sent once more after a first failure.
Rethrow_RetryOnce(error) ==
  IF Len(requests) < 2
  THEN /\ epc' = "start"
       /\ eret' = eret
  ELSE /\ epc' = "done"
       /\ eret' = Raised("executeQuery", error)

\* catch (error) { console.error(...); throw error }
Rethrow(error) ==
  /\ epc' = "done"
  /\ eret' = Raised("executeQuery", error)

\* executeQuery(query), up to the await of fetch: the POST is sent.
ExecuteQuery ==
  /\ epc = "start"
  /\ requests' = Append(requests, [method |-> "POST",
                                   body |-> "data=" \o encodeURIComponent(equery)])
  /\ epc' = "fetching"
  /\ UNCHANGED << equery, response, eret >>

\* The promise of fetch settles: rejected when the endpoint was not reached,
\* else with a response, whose status is tested.
FetchSettles ==
  /\ epc = "fetching"
  /\ \/ /\ Rethrow("fetch failed")
        /\ response' = response
     \/ \E r \in Responses :
          /\ response' = r
          /\ IF Ok(r)
             THEN epc' = "parsing" /\ eret' = eret
             ELSE Rethrow("HTTP error! status: " \o ToString(r.status))
  /\ UNCHANGED << equery, requests >>

\* The promise of response.json() settles: the data is logged and returned,
\* or the SyntaxError is rethrown.
JsonSettles ==
  /\ epc = "parsing"
  /\ IF response.body \in DOMAIN JsonTexts
     THEN /\ epc' = "done"
          /\ eret' = Returned("executeQuery", JsonTexts[response.body])
     ELSE Rethrow("SyntaxError")
  /\ UNCHANGED << equery, requests, response >>

InitExec ==
  /\ ConnectedStore
  /\ SessOff
  /\ FetchOff
  /\ CatOff
  /\ NormOff
  /\ QbOff
  /\ epc = "start"
  /\ equery \in Queries
  /\ requests = << >>
  /\ response = NoResponse
  /\ eret = NoRet
  /\ RunOff

NextExec ==
  \/ ExecuteQuery /\ UNCHANGED << storeVars, sessVars, fetchVars, catVars, normVars, qbVars, runVars >>
  \/ FetchSettles /\ UNCHANGED << storeVars, sessVars, fetchVars, catVars, normVars, qbVars, runVars >>
  \/ JsonSettles /\ UNCHANGED << storeVars, sessVars, fetchVars, catVars, normVars, qbVars, runVars >>

SpecExec == InitExec /\ [][NextExec]_vars

\* The call failed: the endpoint was not reached, answered with a status
\* outside 200..299, or sent a body that is not a JSON text.
ExchangeFailed ==
  \/ response = NoResponse
  \/ response.status < 200 \/ response.status > 299
  \/ response.body \notin DOMAIN JsonTexts

\* C17: a call of executeQuery sends one request and never a second one;
\* when the status is not a success or the body cannot be parsed it ends
\* with an error and no value; when the response is a success with a JSON
\* body it returns the parsed body as it is.
C17_OneRequestNoRetry ==
  /\ Len(requests) <= 1
  /\ epc # "start" => Len(requests) = 1
  /\ epc = "done" =>
       IF ExchangeFailed
       THEN eret.status = "raised" /\ eret.value = << >>
       ELSE eret.status = "returned" /\ eret.value = JsonTexts[response.body]
  /\ epc # "done" => eret = NoRet

\* C17 witness: the endpoint answered 200 with a body that is not JSON; the
\* call ended with an error after its single request.
C17_Witness ==
  /\ epc = "done"
  /\ response.status = 200
  /\ response.body = "<html>Too Many Requests</html>"
  /\ eret.status = "raised"
  /\ Len(requests) = 1

(***************************************************************************)
(* Properties of connect() and createIndexes (checked under Spec).         *)
(***************************************************************************)

\* createIndexes settles in this step, having created all, some or none of
\* the indexes.
IndexCreationSettles == call = "createIndexes" /\ call' # "createIndexes"

\* C18: a failure while the indexes are created does not make connect() fail:
\* however many of the indexes were created, the step in which createIndexes
\* settles ends connect() with a normal return and a collection handle, and from the first completed connect() on no
\* operation of the store fails for want of a connection.
C18_IndexFailureNotFatal ==
  /\ [][IndexCreationSettles =>
          /\ ret' = Returned("connect", << >>)
          /\ call' = "none"
          /\ collection' # NULL]_vars
  /\ [](connectSucceeded => ret.error # "NotConnected")

\* connect() completed although no index could be created, and a batch was
\* stored afterwards.
C18_Witness ==
  /\ connectSucceeded
  /\ indexes = { }
  /\ StoreReturned
  /\ results.inserted > 0
  /\ Len(places) > 0

(***************************************************************************)
(* SpecCatalog: a connected store that a caller fills one place at a time  *)
(* from a catalogue of places of several categories and subcategories, and *)
(* queries with findByCategory and getStats in between.                    *)
(***************************************************************************)

\* The catalogue has more subcategories than getStats lists.
MaxCatalog == 24

CatalogCategories == { "tourism", "amenity", "historic", "natural" }

\* The i-th place of the catalogue, a ProcessedPlace (reduced to the fields
\* the queries and the export read): the categories take turns, the first
\* places share two subcategories and every later one has a subcategory of
\* its own; the geometry is a Point, a Polygon or null.
CatalogFeature(i) ==
  [ osm_id |-> "node/" \o ToString(i),
    name |-> "Unnamed",
    category |-> IF i % 3 = 1 THEN "tourism"
                 ELSE IF i % 3 = 2 THEN "amenity" ELSE "historic",
    subcategory |-> IF i <= 3 THEN "museum"
                    ELSE IF i <= 5 THEN "hotel"
                    ELSE "viewpoint_" \o ToString(i),
    geometry |-> IF i % 4 = 0 THEN [type |-> NULL, coordinates |-> << >>]
                 ELSE IF i % 2 = 0
                 THEN [type |-> "Polygon",
                       coordinates |-> << << << 79, 6 >>, << 81, 6 >>, << 81, 8 >>, << 79, 8 >> >> >>]
                 ELSE [type |-> "Point", coordinates |-> << 79 + (i % 3), 6 + (i % 4) >>],
    location |-> [type |-> "Point", coordinates |-> << 79 + (i % 3), 6 + (i % 4) >>],
    tags |-> [name |-> "Place " \o ToString(i)],
    address |-> [street |-> NULL, city |-> IF i % 2 = 0 THEN "Galle" ELSE NULL,
                 postcode |-> NULL, country |-> "Sri Lanka"],
    contact |-> [phone |-> NULL, email |-> NULL, website |-> NULL] ]

\* What the caller may send next: the place that follows the stored ones, or
\* the first place again, mapped as a tourism place or as a natural one.
Sendable ==
  (IF Len(places) < MaxCatalog THEN { CatalogFeature(Len(places) + 1) } ELSE { })
  \cup { [CatalogFeature(1) EXCEPT !.category = c] : c \in { "tourism", "natural" } }

\* storeFeatures([feature]) for one place of the catalogue.
StoreCatalog ==
  /\ Idle
  /\ \E feature \in Sendable : StoreFeaturesBegin(<< feature >>, FALSE)
  /\ UNCHANGED << client, collection, indexes, places, now, connectSucceeded >>

FindInCatalog == FindByCategoryOf(CatalogCategories)

InitCatalog == ConnectedStore /\ SessOff /\ FetchOff /\ CatOff /\ FetcherOff /\ RunOff

NextCatalog ==
  \/ StoreCatalog /\ UNCHANGED << sessVars, fetchVars, catVars, fetcherVars, runVars >>
  \/ StoreFeaturesStep /\ UNCHANGED << sessVars, fetchVars, catVars, fetcherVars, runVars >>
  \/ StoreFeaturesReturn /\ UNCHANGED << sessVars, fetchVars, catVars, fetcherVars, runVars >>
  \/ FindInCatalog /\ UNCHANGED << sessVars, fetchVars, catVars, fetcherVars, runVars >>
  \/ GetStats /\ UNCHANGED << sessVars, fetchVars, catVars, fetcherVars, runVars >>
  \/ ExportAsGeoJSON /\ UNCHANGED << sessVars, fetchVars, catVars, fetcherVars, runVars >>
  \/ ClearCollection /\ UNCHANGED << sessVars, fetchVars, catVars, fetcherVars, runVars >>
  \/ Resume /\ UNCHANGED << sessVars, fetchVars, catVars, fetcherVars, runVars >>

SpecCatalog == InitCatalog /\ [][NextCatalog]_vars

(***************************************************************************)
(* Properties of findByCategory and getStats (checked under SpecCatalog).  *)
(***************************************************************************)

Min(a, b) == IF a < b THEN a ELSE b
Max(a, b) == IF a > b THEN a ELSE b

FoundReturned == ret.op = "findByCategory" /\ ret.status = "returned"

\* The positions of the stored records of a category.
MatchesOf(cat) == { k \in 1..Len(places) : places[k].category = cat }

\* The n-th stored record of a category, in the order of the collection.
NthMatch(cat, n) ==
  places[CHOOSE k \in MatchesOf(cat) :
           Cardinality({ j \in MatchesOf(cat) : j < k }) = n - 1]

\* The result is the records of the category that follow the first `skip`
\* ones, `size` of them.
IsPage(found, cat, skip, size) ==
  /\ Len(found) = size
  /\ \A k \in 1..Len(found) :
       found[k].category = cat /\ found[k] = NthMatch(cat, skip + k)

\* C19 as stated: for every limit and skip passed in the options the result
\* holds only records of the category asked for, namely those that follow the
\* first `skip` matching ones, min(limit, max(0, matches - skip)) of them.
C19_Original ==
  FoundReturned =>
    LET a == hist.args
        matches == Cardinality(MatchesOf(a.category))
    IN IsPage(ret.value, a.category, a.skip,
              Min(a.limit, Max(0, matches - a.skip)))

\* C19 amended: the result holds only records of the category asked for; with
\* a limit of at least 1 it is the records that follow the first `skip`
\* matching ones, min(limit, max(0, matches - skip)) of them, and with a limit
\* of 0 (as with no limit) it is all max(0, matches - skip) of them.
C19_SkipThenLimit ==
  FoundReturned =>
    LET a == hist.args
        matches == Cardinality(MatchesOf(a.category))
        rest == Max(0, matches - a.skip)
    IN IsPage(ret.value, a.category, a.skip,
              IF a.limit > 0 THEN Min(a.limit, rest) ELSE rest)

\* C19 witness: a page taken from the middle of a category, the store holding
\* records of other categories as well.
C19_Witness ==
  /\ FoundReturned
  /\ hist.args.limit > 0 /\ hist.args.skip > 0
  /\ Cardinality(MatchesOf(hist.args.category)) > hist.args.skip + hist.args.limit
  /\ Cardinality(MatchesOf(hist.args.category)) < Len(places)
  /\ Len(ret.value) = hist.args.limit
  /\ ret.value[1] = NthMatch(hist.args.category, hist.args.skip + 1)

StatsReturned == ret.op = "getStats" /\ ret.status = "returned"

RECURSIVE SumCounts(_)
SumCounts(entries) ==
  IF entries = << >> THEN 0
  ELSE entries[1].count + SumCounts(Tail(entries))

NonIncreasing(entries) ==
  \A k \in 1..(Len(entries) - 1) : entries[k].count >= entries[k + 1].count

StoredCategories == { places[k].category : k \in 1..Len(places) }

StoredSubcategories == { places[k].subcategory : k \in 1..Len(places) }

\* C20: whatever storeFeatures and clearCollection calls came before, getStats
\* returns total = the number of stored records, byCategory with exactly one
\* entry per stored category, each counting the records of its category (so
\* the counts sum to total), in non-increasing order of count, and
\* topSubcategories with at most 20 entries, each counting the records of its
\* subcategory, in non-increasing order of count.
C20_Stats ==
  StatsReturned =>
    LET stats == ret.value
        cats == stats.byCategory
        subs == stats.topSubcategories
    IN /\ stats.total = Len(places)
       /\ Len(cats) = Cardinality(StoredCategories)
       /\ { cats[k]._id : k \in 1..Len(cats) } = StoredCategories
       /\ \A k \in 1..Len(cats) :
            cats[k].count = Cardinality(MatchesOf(cats[k]._id))
       /\ SumCounts(cats) = stats.total
       /\ NonIncreasing(cats)
       /\ Len(subs) <= 20
       /\ \A k \in 1..Len(subs) :
            subs[k].count =
              Cardinality({ j \in 1..Len(places) : places[j].subcategory = subs[k]._id })
       /\ \A j, k \in 1..Len(subs) : j # k => subs[j]._id # subs[k]._id
       /\ NonIncreasing(subs)

\* C20 witness: getStats on a store with more than 20 subcategories and
\* categories of different sizes, the first place stored as a natural one.
C20_Witness ==
  /\ StatsReturned
  /\ Cardinality(StoredSubcategories) > 20
  /\ Len(ret.value.topSubcategories) = 20
  /\ ret.value.topSubcategories[1].count > ret.value.topSubcategories[20].count
  /\ Len(ret.value.byCategory) >= 3
  /\ ret.value.byCategory[1].count > ret.value.byCategory[Len(ret.value.byCategory)].count
  /\ places[1].category = "natural"

(***************************************************************************)
(* Properties of exportAsGeoJSON (checked under SpecCatalog).              *)
(***************************************************************************)

ExportReturned == ret.op = "exportAsGeoJSON" /\ ret.status = "returned"

\* The geometry the export owes a record: the stored geometry, or the stored
\* location when the stored geometry is null.
OwedGeometry(doc) == IF doc.geometry.type = NULL THEN doc.location ELSE doc.geometry

\* C21: exportAsGeoJSON on a store of N records returns a feature collection
\* of exactly N features, the k-th for the k-th record, with id = osm_id, the
\* record's name, category, subcategory, tags, address and contact as its
\* properties and nothing else, and as geometry the stored geometry, or the
\* stored location when the geometry is null; the step in which the export is
\* made leaves the collection as it was.
C21_ExportAllRecords ==
  /\ [](ExportReturned =>
          LET exported == ret.value.features
          IN /\ ret.value.type = "FeatureCollection"
             /\ Len(exported) = Len(places)
             /\ \A k \in 1..Len(places) :
                  /\ exported[k].type = "Feature"
                  /\ exported[k].id = places[k].osm_id
                  /\ DOMAIN exported[k].properties =
                       { "name", "category", "subcategory", "tags", "address", "contact" }
                  /\ \A f \in DOMAIN exported[k].properties :
                       exported[k].properties[f] = places[k][f]
                  /\ exported[k].geometry = OwedGeometry(places[k]))
  /\ [][ret'.op = "exportAsGeoJSON" => places' = places]_vars

\* C21 witness: an export of a store that holds records with a Point, with a
\* Polygon and with no geometry.
C21_Witness ==
  /\ ExportReturned
  /\ Len(ret.value.features) >= 4
  /\ \E k \in 1..Len(places) :
       places[k].geometry.type = NULL /\ ret.value.features[k].geometry.type = "Point"
  /\ \E k \in 1..Len(places) : ret.value.features[k].geometry.type = "Polygon"
  /\ \E k \in 1..Len(places) :
       places[k].geometry.type = "Point" /\ ret.value.features[k].geometry.type = "Point"

(***************************************************************************)
(* Properties of the order of a sync cycle (checked under SpecSession).    *)
(***************************************************************************)

\* The positions of main's try block, in program order.
MainOrder ==
  << "fetch", "convert", "backup", "process", "connect", "awaitConnect",
     "store", "awaitStore", "stats", "awaitStats" >>

\* Where a session is when it is no longer in its try block.
AfterTry == { "catch", "finally", "awaitDisconnect", "done", "rejected", "exited" }

\* C22: main is strictly sequential. Inside the try block every step leads
\* from one position to the one that follows it in program order (fetch,
\* convert, backup, normalize, connect, storeFeatures, getStats), or out of
\* the block; storeFeatures starts only when connect() has returned, and
\* getStats only when storeFeatures has returned; no upsert or query is made
\* before a connect() has succeeded; and as long as no connect() has
\* succeeded (so also when fetch, conversion, normalization or connect
\* failed) no step changes the collection.
C22_SequentialCycle ==
  /\ [][(prog = "main" /\ mpc' # mpc /\ mpc' \notin AfterTry) =>
          \E k \in 1..(Len(MainOrder) - 1) :
            mpc = MainOrder[k] /\ mpc' = MainOrder[k + 1]]_vars
  /\ [][(prog = "main" /\ mpc' # mpc /\ mpc' = "store") =>
          ret = Returned("connect", << >>)]_vars
  /\ [][(prog = "main" /\ mpc' # mpc /\ mpc' = "stats") =>
          (ret.op = "storeFeatures" /\ ret.status = "returned" /\ call = "none")]_vars
  /\ []((prog = "main" /\ (call = "storeFeatures" \/ ret.op \in { "storeFeatures", "getStats" }))
          => (connectSucceeded /\ client = "connected"))
  /\ [][(prog = "main" /\ ~connectSucceeded') => places' = places]_vars

\* C22 witness: main ran through its whole try block and wrote records.
C22_Witness ==
  /\ prog = "main"
  /\ mpc = "awaitStats"
  /\ ret.op = "getStats" /\ ret.status = "returned"
  /\ Len(places) > 0
  /\ ~thrown

(***************************************************************************)
(* Properties of the delay between network calls (checked under SpecFetch).*)
(***************************************************************************)

\* The run arrives in this step at a position where its next statement is a
\* network call, an earlier network call having been made.
NextCallDue ==
  /\ fpc' \in { "fetch", "fetchAll" }
  /\ << fpc', fcat' >> # << fpc, fcat >>
  /\ attempted' # << >>

\* C23: between two consecutive network calls of fetchOsmData the delay
\* elapses: the run arrives at its next network call only out of the sleep
\* that follows the previous one, whether that call succeeded or failed.
C23_DelayBetweenCalls ==
  [][NextCallDue => fpc = "sleep"]_vars

\* The same for the calls that follow a category whose fetch and save both
\* succeeded: the delay elapses before the next call.
DelayAfterSuccess ==
  [][(NextCallDue /\ failed' = failed) => fpc = "sleep"]_vars

(***************************************************************************)
(* SpecPeriodic: startPeriodicFetching(). The first main() is awaited,     *)
(* then setInterval starts one main() per tick. Every main() has a         *)
(* MongoDBStorage of its own; all of them write the same collection. The   *)
(* cycles interleave at their awaits: a step is what one cycle runs from   *)
(* one await to the next.                                                  *)
(***************************************************************************)

\* The main() calls of one run of the process.
MaxCycles == 3

\* What processForMongoDB returns in a cycle: one place, or that place under
\* another name and a second one.
CycleBatches ==
  { << [osm_id |-> "node/1", name |-> "Galle Fort", category |-> "tourism"] >>,
    << [osm_id |-> "node/1", name |-> "Unnamed", category |-> "tourism"],
       [osm_id |-> "node/2", name |-> "Unnamed", category |-> "tourism"] >> }

\* main() at its first statement: new OsmDataFetcher(), new MongoDBStorage().
NewCycle ==
  [ pc |-> "fetch", client |-> NULL, collection |-> NULL, features |-> << >>,
    idx |-> 1, results |-> NoResults ]

Alive == exited = -1

At(i, pc) == Alive /\ i \in 1..Len(cycles) /\ cycles[i].pc = pc

\* The store object of the single-store specifications is not used here.
perFrame == << client, collection, now, call, features, idx, results, ret,
               connectSucceeded, hist >>

\* The cycle goes on to its next statement.
Goes(i, pc) ==
  /\ cycles' = [cycles EXCEPT ![i].pc = pc]
  /\ exited' = exited

\* Mutant of Fails: the catch clause logs the error and main() returns.
Fails_LogOnly(i) ==
  /\ cycles' = [cycles EXCEPT ![i].pc = "failed"]
  /\ exited' = exited

\* An error is thrown inside main's try block: the catch clause logs it and
\* calls process.exit(1). No timer or I/O callback runs in between.
Fails(i) ==
  /\ cycles' = [cycles EXCEPT ![i].pc = "failed"]
  /\ exited' = 1

\* await fetcher.fetchAllData(): the request is answered or fails.
PerFetch ==
  /\ \E i \in 1..Len(cycles) :
       /\ At(i, "fetch")
       /\ Goes(i, "fetched") \/ Fails(i)
  /\ UNCHANGED << installed, places, indexes, perFrame >>

\* What follows the answer without an await in between: convertToGeoJSON,
\* the GeoJSON backup and processForMongoDB. Each of them may throw.
PerProcess ==
  /\ \E i \in 1..Len(cycles) :
       /\ At(i, "fetched")
       /\ \/ \E batch \in CycleBatches :
               /\ cycles' = [cycles EXCEPT ![i].pc = "connect", ![i].features = batch]
               /\ exited' = exited
          \/ Fails(i)
  /\ UNCHANGED << installed, places, indexes, perFrame >>

\* await storage.connect(), up to the await of createIndexes
PerConnect ==
  /\ \E i \in 1..Len(cycles) :
       /\ At(i, "connect")
       /\ \/ /\ cycles' = [cycles EXCEPT ![i].pc = "createIndexes",
                                         ![i].client = "connected",
                                         ![i].collection = "places"]
             /\ exited' = exited
          \/ /\ cycles' = [cycles EXCEPT ![i].pc = "failed", ![i].client = "new"]
             /\ exited' = 1
  /\ UNCHANGED << installed, places, indexes, perFrame >>

\* createIndexes(): a prefix of the indexes is created, connect() returns
PerCreateIndexes ==
  /\ \E i \in 1..Len(cycles) :
       /\ At(i, "createIndexes")
       /\ \E k \in 0..Len(IndexOrder) :
            indexes' = indexes \cup { IndexOrder[j] : j \in 1..k }
       /\ Goes(i, "store")
  /\ UNCHANGED << installed, places, perFrame >>

\* await storage.storeFeatures(processedFeatures), up to the first await
PerStoreBegin ==
  /\ \E i \in 1..Len(cycles) :
       /\ At(i, "store")
       /\ IF cycles[i].collection = NULL
          THEN Fails(i)
          ELSE /\ cycles' = [cycles EXCEPT ![i].pc = "upsert", ![i].idx = 1,
                                           ![i].results = NoResults]
               /\ exited' = exited
  /\ UNCHANGED << installed, places, indexes, perFrame >>

\* One turn of the for loop of storeFeatures in one of the cycles.
PerUpsert ==
  /\ \E i \in 1..Len(cycles) :
       /\ At(i, "upsert")
       /\ cycles[i].idx <= Len(cycles[i].features)
       /\ \E fails \in BOOLEAN :
            LET c == cycles[i]
                feature == c.features[c.idx]
            IN IF fails \/ Conflicts(feature)
               THEN /\ places' = places
                    /\ cycles' = [cycles EXCEPT
                                    ![i].results = CatchStoreError(c.results),
                                    ![i].idx = AfterCatch(c.idx, Len(c.features))]
               ELSE LET r == UpdateOne(places, feature, now)
                    IN /\ places' = r.coll
                       /\ cycles' = [cycles EXCEPT
                                       ![i].results = Count(c.results, r),
                                       ![i].idx = c.idx + 1]
  /\ UNCHANGED << installed, exited, indexes, perFrame >>

\* storeFeatures returns its summary, which main() does not read; the batch
\* is not used again either.
PerStored ==
  /\ \E i \in 1..Len(cycles) :
       /\ At(i, "upsert")
       /\ cycles[i].idx > Len(cycles[i].features)
       /\ cycles' = [cycles EXCEPT ![i] = [NewCycle EXCEPT !.pc = "stats",
                                                           !.client = cycles[i].client,
                                                           !.collection = cycles[i].collection]]
       /\ exited' = exited
  /\ UNCHANGED << installed, places, indexes, perFrame >>

\* await storage.getStats() and the logging of the statistics
PerStats ==
  /\ \E i \in 1..Len(cycles) :
       /\ At(i, "stats")
       /\ IF cycles[i].collection = NULL
          THEN Fails(i)
          ELSE Goes(i, "finally") \/ Fails(i)
  /\ UNCHANGED << installed, places, indexes, perFrame >>

\* finally { await storage.disconnect() }, and main() returns
PerFinally ==
  /\ \E i \in 1..Len(cycles) :
       /\ At(i, "finally")
       /\ cycles' = [cycles EXCEPT
                       ![i].pc = "done",
                       ![i].client = IF cycles[i].client # NULL THEN "closed" ELSE NULL]
       /\ exited' = exited
  /\ UNCHANGED << installed, places, indexes, perFrame >>

\* The first main() has returned: setInterval(async () => { await main() }, ...)
PerInstall ==
  /\ At(1, "done")
  /\ ~installed
  /\ installed' = TRUE
  /\ UNCHANGED << cycles, exited, places, indexes, perFrame >>

\* Mutant of IntervalTick: the callback returns at once while a cycle is in
\* progress.
IntervalTick_Guarded ==
  /\ Alive
  /\ installed
  /\ Len(cycles) < MaxCycles
  /\ \A i \in 1..Len(cycles) : cycles[i].pc = "done"
  /\ cycles' = Append(cycles, NewCycle)
  /\ UNCHANGED << installed, exited, places, indexes, perFrame >>

\* The interval elapses: the callback calls main().
IntervalTick ==
  /\ Alive
  /\ installed
  /\ Len(cycles) < MaxCycles
  /\ cycles' = Append(cycles, NewCycle)
  /\ UNCHANGED << installed, exited, places, indexes, perFrame >>

InitPeriodic ==
  /\ StoreInit
  /\ SessOff
  /\ FetchOff
  /\ CatOff
  /\ FetcherOff
  /\ JsOff
  /\ cycles = << NewCycle >>
  /\ installed = FALSE
  /\ exited = -1

NextPeriodic ==
  \/ PerFetch /\ UNCHANGED << sessVars, fetchVars, catVars, fetcherVars, jsVars >>
  \/ PerProcess /\ UNCHANGED << sessVars, fetchVars, catVars, fetcherVars, jsVars >>
  \/ PerConnect /\ UNCHANGED << sessVars, fetchVars, catVars, fetcherVars, jsVars >>
  \/ PerCreateIndexes /\ UNCHANGED << sessVars, fetchVars, catVars, fetcherVars, jsVars >>
  \/ PerStoreBegin /\ UNCHANGED << sessVars, fetchVars, catVars, fetcherVars, jsVars >>
  \/ PerUpsert /\ UNCHANGED << sessVars, fetchVars, catVars, fetcherVars, jsVars >>
  \/ PerStored /\ UNCHANGED << sessVars, fetchVars, catVars, fetcherVars, jsVars >>
  \/ PerStats /\ UNCHANGED << sessVars, fetchVars, catVars, fetcherVars, jsVars >>
  \/ PerFinally /\ UNCHANGED << sessVars, fetchVars, catVars, fetcherVars, jsVars >>
  \/ PerInstall /\ UNCHANGED << sessVars, fetchVars, catVars, fetcherVars, jsVars >>
  \/ IntervalTick /\ UNCHANGED << sessVars, fetchVars, catVars, fetcherVars, jsVars >>

SpecPeriodic == InitPeriodic /\ [][NextPeriodic]_vars

(***************************************************************************)
(* Properties of periodic mode (checked under SpecPeriodic).               *)
(***************************************************************************)

InProgress(i) == cycles[i].pc \notin { "done", "failed" }

\* C24: the interval callback starts a cycle without looking at the earlier
\* ones: while the process runs and the timer is set, a tick can start a new
\* cycle also when an earlier cycle is still in progress, whatever its
\* position.
C24_NoMutualExclusion ==
  (/\ Alive
   /\ installed
   /\ Len(cycles) < MaxCycles
   /\ \E i \in 1..Len(cycles) : InProgress(i))
    => ENABLED IntervalTick

\* C24 witness: two cycles are in the for loop of storeFeatures at once, each
\* on a connection of its own, and both have written the collection.
C24_Witness ==
  \E i, j \in 1..Len(cycles) :
    /\ i < j
    /\ cycles[i].pc = "upsert" /\ cycles[j].pc = "upsert"
    /\ cycles[i].client = "connected" /\ cycles[j].client = "connected"
    /\ cycles[i].results.inserted + cycles[i].results.updated > 0
    /\ cycles[j].results.inserted + cycles[j].results.updated > 0
    /\ Len(places) > 0

Digits == << "0", "1", "2", "3", "4", "5", "6", "7", "8", "9" >>

IsDigit(ch) == \E d \in 1..10 : Digits[d] = ch

DigitOf(ch) == (CHOOSE d \in 1..10 : Digits[d] = ch) - 1

RECURSIVE ReadNumber(_, _, _)
\* The number written in the text from position pos on.
ReadNumber(text, pos, sofar) ==
  IF pos > Len(text) \/ ~IsDigit(SubSeq(text, pos, pos)) THEN sofar
  ELSE ReadNumber(text, pos + 1, 10 * sofar + DigitOf(SubSeq(text, pos, pos)))

\* The execution-time budget a query asks for: the number of its
\* [timeout:...] setting.
TimeoutOf(text) ==
  LET at == CHOOSE k \in 1..Len(text) :
              /\ SubSeq(text, k, k + 8) = "[timeout:"
              /\ \A j \in 1..(k - 1) : SubSeq(text, j, j + 8) # "[timeout:"
  IN ReadNumber(text, at + 9, 0)

IsComposite(c) == c.returned /\ c.method = "buildComprehensiveQuery"

IsSingle(c) == c.returned /\ c.method # "buildComprehensiveQuery"

\* The composite query asks for a longer budget than a single-dimension one.
CompositeBudgetLonger ==
  (IsSingle(remembered) /\ IsComposite(built)) =>
    TimeoutOf(built.out) > TimeoutOf(remembered.out)

\* C25: the composite query asks for a longer execution-time budget than a
\* single-dimension query, and of two composite queries the one with more
\* clauses asks for the larger budget.
C25_BudgetGrowsWithClauses ==
  /\ CompositeBudgetLonger
  /\ (/\ IsComposite(remembered) /\ IsComposite(built)
      /\ ClausesOf(built) > ClausesOf(remembered))
       => TimeoutOf(built.out) > TimeoutOf(remembered.out)

(***************************************************************************)
(* Properties of disconnect() (checked under Spec).                        *)
(***************************************************************************)

\* A store operation is called in this step.
OperationCalled == Idle /\ (ret'.op \in StoreOps \/ call' \in StoreOps)

\* C26: a store operation called after disconnect(), no connect() having been
\* called since, fails at once with the not-connected error: no database
\* operation is attempted and the collection is left as it was.
C26_NotConnectedAfterDisconnect ==
  [][(OperationCalled /\ client = "closed") =>
        /\ ret' = Raised(ret'.op, "NotConnected")
        /\ call' = "none"
        /\ places' = places]_vars

\* The same for a store whose connect() failed before it was disconnected:
\* the collection handle was never set, and the guard raises.
NotConnectedAfterFailedConnect ==
  [][(OperationCalled /\ client = "closed" /\ ~connectSucceeded) =>
        /\ ret' = Raised(ret'.op, "NotConnected")
        /\ call' = "none"
        /\ places' = places]_vars

(***************************************************************************)
(* Properties of the order of index creation (checked under Spec).         *)
(***************************************************************************)

\* The first k indexes of the order createIndexes asks for them in.
FirstIndexes(k) == { IndexOrder[j] : j \in 1..k }

\* C28: createIndexes asks for the indexes in the order location 2dsphere,
\* text, category, subcategory, unique osm_id and stops at the first failure:
\* what one call adds is the first k indexes of that order for some k, so an
\* index never exists while one that precedes it in the order is missing; and
\* connect() returns normally in every case, with the unique osm_id index or
\* without it.
C28_IndexesInOrder ==
  /\ IndexOrder =
       << "location_2dsphere", "text", "category", "subcategory", "osm_id_unique" >>
  /\ [](\A j \in 1..Len(IndexOrder) :
          IndexOrder[j] \in indexes => FirstIndexes(j) \subseteq indexes)
  /\ [][IndexCreationSettles =>
          /\ \E k \in 0..Len(IndexOrder) : indexes' = indexes \cup FirstIndexes(k)
          /\ ret'.op = "connect" /\ ret'.status = "returned"]_vars

\* C28 witness: the creation of the category index failed; connect()
\* completed, and a batch was stored in a collection that has the first two
\* indexes and no uniqueness constraint on osm_id.
C28_Witness ==
  /\ connectSucceeded
  /\ indexes = FirstIndexes(2)
  /\ "osm_id_unique" \notin indexes
  /\ StoreReturned
  /\ results.inserted > 0

(***************************************************************************)
(* SpecTwin: storeFeatures of the JavaScript variant (mongoStorage.js) next *)
(* to the TypeScript one. Each variant has its own store; both are in the  *)
(* same state (never connected, or connected on collections with the same  *)
(* content), are given the same batch, and the database answers both in    *)
(* the same way. `js` is the store of the JavaScript variant.              *)
(***************************************************************************)
\* mongoStorage.js storeFeatures: the first statements; there is no check of
\* this.collection.
JsStoreFeaturesBegin(batch) ==
  js' = [js EXCEPT !.call = "storeFeatures", !.features = batch, !.idx = 1,
                   !.results = NoResults, !.ret = NoRet]

\* One turn of the for loop: this.collection.updateOne(...) inside the try.
\* On a null handle the call throws a TypeError, which the catch counts.
JsUpsert(fails) ==
  IF js.collection = NULL \/ fails \/ Conflicts(js.features[js.idx])
  THEN js' = [js EXCEPT !.results = CatchStoreError(@),
                        !.idx = AfterCatch(@, Len(js.features))]
  ELSE LET r == UpdateOne(js.places, js.features[js.idx], now)
       IN js' = [js EXCEPT !.places = r.coll, !.results = Count(@, r),
                           !.idx = @ + 1]

\* One turn of the for loop of the TypeScript variant.
TsUpsert(fails) ==
  IF fails \/ Conflicts(features[idx])
  THEN /\ places' = places
       /\ results' = CatchStoreError(results)
       /\ idx' = AfterCatch(idx, Len(features))
  ELSE LET r == UpdateOne(places, features[idx], now)
       IN /\ places' = r.coll
          /\ results' = Count(results, r)
          /\ idx' = idx + 1

TsInLoop == call = "storeFeatures" /\ idx <= Len(features)
JsInLoop == js.call = "storeFeatures" /\ js.idx <= Len(js.features)
TsSettled == call = "none" /\ ret.op = "storeFeatures"
JsSettled == js.call = "none" /\ js.ret.op = "storeFeatures"

\* The same batch is given to both variants.
TwinCall ==
  /\ Idle
  /\ js.call = "none" /\ js.ret.status = "none"
  /\ \E batch \in Batches :
       /\ StoreFeaturesBegin(batch, FALSE)
       /\ JsStoreFeaturesBegin(batch)
  /\ UNCHANGED << client, collection, indexes, places, now, connectSucceeded >>

\* Each variant that is in its loop takes one turn; the database gives both
\* the same answer.
TwinStep ==
  /\ TsInLoop \/ JsInLoop
  /\ \E fails \in BOOLEAN :
       /\ IF TsInLoop THEN TsUpsert(fails) ELSE UNCHANGED << places, results, idx >>
       /\ IF JsInLoop THEN JsUpsert(fails) ELSE UNCHANGED js
  /\ UNCHANGED << client, collection, indexes, now, call, features, ret,
                  connectSucceeded, hist >>

\* return results
TwinReturn ==
  /\ call = "storeFeatures" \/ js.call = "storeFeatures"
  /\ ~TsInLoop /\ ~JsInLoop
  /\ IF call = "storeFeatures"
     THEN call' = "none" /\ ret' = Returned("storeFeatures", results)
     ELSE UNCHANGED << call, ret >>
  /\ IF js.call = "storeFeatures"
     THEN js' = [js EXCEPT !.call = "none",
                           !.ret = Returned("storeFeatures", js.results)]
     ELSE UNCHANGED js
  /\ UNCHANGED << client, collection, indexes, places, now, features, idx,
                  results, connectSucceeded, hist >>

\* The caller takes both outcomes and goes on.
TwinResume ==
  /\ TsSettled /\ JsSettled
  /\ ret' = NoRet
  /\ features' = << >>
  /\ idx' = 1
  /\ results' = NoResults
  /\ hist' = NoHist
  /\ js' = [js EXCEPT !.features = << >>, !.idx = 1, !.results = NoResults,
                      !.ret = NoRet]
  /\ UNCHANGED << client, collection, indexes, places, now, call, connectSucceeded >>

InitTwin ==
  /\ \/ StoreInit /\ js = NoJs
     \/ ConnectedStore /\ js = [NoJs EXCEPT !.collection = "places"]
  /\ SessOff
  /\ FetchOff
  /\ CatOff
  /\ FetcherOff
  /\ PerOff

NextTwin ==
  \/ Tick /\ UNCHANGED << sessVars, fetchVars, catVars, fetcherVars, runVars >>
  \/ TwinCall /\ UNCHANGED << sessVars, fetchVars, catVars, fetcherVars, perVars >>
  \/ TwinStep /\ UNCHANGED << sessVars, fetchVars, catVars, fetcherVars, perVars >>
  \/ TwinReturn /\ UNCHANGED << sessVars, fetchVars, catVars, fetcherVars, perVars >>
  \/ TwinResume /\ UNCHANGED << sessVars, fetchVars, catVars, fetcherVars, perVars >>

SpecTwin == InitTwin /\ [][NextTwin]_vars

(***************************************************************************)
(* Properties of the two variants (checked under SpecTwin).                *)
(***************************************************************************)
\* Both raised, or both returned the same summary; the same store content.
SameOutcome ==
  /\ ret.status = js.ret.status
  /\ ret.status = "returned" => ret.value = js.ret.value
  /\ places = js.places

\* C30: for every store state (never connected, connected) and every batch,
\* the empty one included, the storeFeatures of the JavaScript variant and
\* of the TypeScript variant both raise an error or both return the same
\* summary, and leave the same store content.
C30_VariantsEquivalent == (TsSettled /\ JsSettled) => SameOutcome

\* On connected stores the two variants have the same outcome.
EquivalentWhenConnected ==
  (TsSettled /\ JsSettled /\ collection # NULL) => SameOutcome

\* On never-connected stores the TypeScript variant raised the not-connected
\* error and the JavaScript variant returned a summary for the empty batch.
EmptyBatchNeverConnected ==
  /\ TsSettled /\ JsSettled
  /\ collection = NULL /\ js.collection = NULL
  /\ js.features = << >>
  /\ ret.status = "raised" /\ ret.error = "NotConnected"
  /\ js.ret.status = "returned" /\ js.ret.value = NoResults

====
